---- MODULE Spec2Model ----
(***************************************************************************)
(* Model of the inventory pipeline's two workflows: the provisioner        *)
(* (infra/scripts/setup.py) and the decommissioner                         *)
(* (infra/scripts/teardown.py), run one after the other against one cloud  *)
(* account.  The account (aws) and the local registry file are the shared  *)
(* state; each run is a sequence of provider calls, one action per call    *)
(* (or per group of calls whose errors are handled together).  A provider  *)
(* call may fail with an error the code does not expect; the number of     *)
(* such injected failures in one behaviour is bounded by MaxFaults.        *)
(*                                                                         *)
(* Resource names are sequences of tokens, so that the code's string tests *)
(* (startswith, endswith, split(':')[-1], substring) are computed.         *)
(***************************************************************************)
EXTENDS Integers, Sequences, FiniteSets, TLC

\* ---------------------------------------------------------------- bounds
MaxRuns == 2
MaxFaults == 1
MaxObjects == 1
MaxVersions == 1

\* ------------------------------------------------------------- constants
INGEST_BUCKET_BASE == "inventory-uploads"
WEB_BUCKET_BASE == "inventory-web"
SNS_TOPIC_BASE == <<"NoStock">>
TABLE_NAME == <<"Inventory">>
API_NAME_BASE == "inventory-api"
SETUP_ROLE_NAME == "LabRole"
TEARDOWN_ROLE_DEFAULT == "voclabs-LabRole"
BUCKET_PREFIXES == << <<"inventory-uploads", "-">>, <<"inventory-web", "-">> >>
LAMBDA_PREFIXES ==
  << <<"load_inventory", "-">>, <<"get_inventory_api", "-">>, <<"notify_low_stock", "-">> >>
SNS_TOPIC_PREFIX == <<"NoStock", "-">>
TEARDOWN_TABLE_NAME == <<"Inventory">>
BatchSize == 10

Handlers == {"A", "B", "C"}
LambdaBase(h) ==
  CASE h = "A" -> "load_inventory"
    [] h = "B" -> "get_inventory_api"
    [] h = "C" -> "notify_low_stock"

\* The suffixes a run can draw (date + 6 hex digits in the code).
SuffixList == <<"s1", "s2", "s3">>
Suffixes == {SuffixList[i] : i \in 1..Len(SuffixList)}
None == <<>>

\* ------------------------------------------------------------ name tests
Name(base, s) == <<base, "-", s>>
IngestBucket(s) == Name(INGEST_BUCKET_BASE, s)
\* Faulty variant of the web bucket's name: a fixed ending, not the run's suffix.
WebBucketUnsuffixed(s) == <<WEB_BUCKET_BASE, "-", "web">>
WebBucket(s) == Name(WEB_BUCKET_BASE, s)
LambdaName(h, s) == Name(LambdaBase(h), s)

StartsWith(n, p) == Len(p) <= Len(n) /\ SubSeq(n, 1, Len(p)) = p
EndsWith(n, p) == Len(p) <= Len(n) /\ SubSeq(n, Len(n) - Len(p) + 1, Len(n)) = p
Contains(n, tok) == \E i \in 1..Len(n) : n[i] = tok

TopicArn(name) == <<"arn:aws:sns:region:account", ":">> \o name
\* topic_arn.split(':')[-1]
LastSegment(arn) ==
  LET colons == {i \in 1..Len(arn) : arn[i] = ":"}
      last == IF colons = {} THEN 0 ELSE CHOOSE i \in colons : \A j \in colons : j <= i
  IN  SubSeq(arn, last + 1, Len(arn))
\* Faulty variant of the lookup: the whole ARN is compared with the name.
TopicMatchesWholeArn(arn, name) == arn = name
\* t["TopicArn"].endswith(f":{name}")
TopicMatches(arn, name) == EndsWith(arn, <<":">> \o name)

\* Names that exist before any run of the workflow (left by someone else).
LegacyBucket == Name(INGEST_BUCKET_BASE, "old")
LegacyTopic == <<"NoStock", "-", "old">>
RoleNames == {SETUP_ROLE_NAME, TEARDOWN_ROLE_DEFAULT}
AttachedPolicyNames ==
  { <<"AWSLambdaBasicExecutionRole">>, <<"AmazonS3ReadOnlyAccess">> }
InlinePolicyNames == { <<"PolicyA", "-", "x">>, <<"PolicyABC">>, <<"LabPolicy">> }

\* ----------------------------------------------------------------- state
VARIABLES
  aws,       \* the account: roles, buckets, table, topics, handlers, mappings, apis
  registry,  \* the local file aws_resources.db: "absent" or the suffix it records
  kind,      \* "none", "setup" or "teardown": the workflow that runs
  pc,        \* position of the running workflow
  loc,       \* its local variables
  hist,      \* what the account held at first ("clean" or "legacy"), then the
             \* runs that ended before the current one
  faults,    \* injected provider failures so far
  obs        \* what the current run did last and what it printed

vars == <<aws, registry, kind, pc, loc, hist, faults, obs>>

NewBucket == [objects |-> 0, versions |-> 0, notif |-> None,
              bpaOff |-> FALSE, policy |-> FALSE, website |-> FALSE]
NewLambda == [perms |-> {}, topic |-> None]

Put(f, k, v) == [x \in DOMAIN f \cup {k} |-> IF x = k THEN v ELSE f[x]]
Drop(f, k) == [x \in DOMAIN f \ {k} |-> f[x]]

FullPolicies == [attached |-> AttachedPolicyNames, inline |-> InlinePolicyNames]

CleanAws(roles) ==
  [ roles    |-> roles,
    rolePol  |-> [r \in roles |-> FullPolicies],
    buckets  |-> <<>>,
    table    |-> [status |-> "NONE", gen |-> 0, name |-> None],
    topics   |-> {},
    subs     |-> 0,
    lambdas  |-> <<>>,
    esms     |-> {},
    apis     |-> <<>> ]

NoLoc == [suffix |-> "none"]
NoObs == [lastStep |-> "none", lastErr |-> "ok", attempted |-> {}, reported |-> {},
          created |-> {}, failed |-> {}]

Init ==
  /\ \E roles \in {{TEARDOWN_ROLE_DEFAULT}, RoleNames} :
     \E legacy \in BOOLEAN :
       /\ (legacy => SETUP_ROLE_NAME \in roles)
       /\ aws = IF legacy
                THEN [CleanAws(roles) EXCEPT
                        !.buckets = Put(<<>>, LegacyBucket,
                                        [NewBucket EXCEPT !.objects = MaxObjects,
                                                          !.versions = MaxVersions]),
                        !.topics = {LegacyTopic}]
                ELSE CleanAws(roles)
  /\ registry = "absent"
  /\ kind = "none"
  /\ pc = "idle"
  /\ loc = NoLoc
  /\ hist = << [kind |-> "origin", suffix |-> "none",
                end |-> IF aws.buckets = <<>> /\ aws.topics = {} THEN "clean" ELSE "legacy"] >>
  /\ faults = 0
  /\ obs = NoObs

\* ------------------------------------------------------- control helpers
CanFail == faults < MaxFaults
\* The six parts of the decommissioner's __main__ a step belongs to.
Major(step) ==
  CASE step \in {"td_buckets", "bk_next", "bk_clear", "bk_objects", "bk_versions",
                 "bk_delete"} -> {"buckets"}
    [] step \in {"td_functions", "fn_next", "fn_mappings", "fn_delete"} -> {"handlers"}
    [] step \in {"tt_describe", "tt_delete", "tt_wait"} -> {"table"}
    [] step \in {"tp_list", "tp_next", "tp_delete"} -> {"topics"}
    [] step = "iam_policies" -> {"policies"}
    [] step = "td_registry" -> {"registry"}
    [] OTHER -> {}
\* failed: the provisioner's calls that ended in an error other than already-exists
\* or not-found (the decommissioner's errors are in reported).
Note(step, err) ==
  [obs EXCEPT !.lastStep = step, !.lastErr = err, !.attempted = @ \cup Major(step),
              !.failed = IF kind = "setup" /\ err \in {"other", "waiter"}
                         THEN @ \cup {step} ELSE @]
Report(o, msg, name) == [o EXCEPT !.reported = @ \cup {[msg |-> msg, name |-> name]}]

\* An outcome the provider's state decides: control goes to next.
Pass(step, err, next) ==
  /\ faults' = faults
  /\ pc' = next
  /\ obs' = Note(step, err)

\* An injected failure of the call: control goes to next ("aborted" when it propagates).
Fault(step, err, next) ==
  /\ CanFail
  /\ faults' = faults + 1
  /\ pc' = next
  /\ obs' = Note(step, err)

Ended == pc \in {"idle", "done", "aborted"}
RunsStarted == Len(hist) - 1 + (IF kind = "none" THEN 0 ELSE 1)
Archive == IF kind = "none" THEN hist
           ELSE Append(hist, [kind |-> kind, end |-> pc, suffix |-> loc.suffix])

UsedSuffixes == {hist[i].suffix : i \in 1..Len(hist)} \cup {loc.suffix}

\* unique_suffix(): any value, also one drawn before (the code checks nothing).
\* The suffixes are interchangeable, so a new one is always the first unused.
unique_suffix ==
  LET used == UsedSuffixes \cap Suffixes
      fresh == {i \in 1..Len(SuffixList) : SuffixList[i] \notin used}
  IN  used \cup (IF fresh = {} THEN {}
                 ELSE {SuffixList[CHOOSE i \in fresh : \A j \in fresh : i <= j]})

\* =========================================================== provisioner
SetupLoc(s) ==
  [ suffix |-> s, role_arn |-> FALSE, table_arn |-> FALSE,
    stream_arn |-> 0, topic_arn |-> None, found |-> FALSE, arns |-> {},
    existing |-> {}, uuid |-> 0, api_id |-> 0, integration |-> FALSE ]

At(p) == kind = "setup" /\ pc = p

\* setup.py __main__, lines 356-367: names are fixed from one suffix.
StartSetup ==
  /\ Ended
  /\ RunsStarted < MaxRuns
  /\ \E s \in unique_suffix : loc' = SetupLoc(s)
  /\ kind' = "setup"
  /\ pc' = "role"
  /\ hist' = Archive
  /\ obs' = NoObs
  /\ UNCHANGED <<aws, registry, faults>>

\* Faulty variant of labrole_arn: a missing role is not fatal.
labrole_arn_lenient ==
  /\ kind = "setup" /\ pc = "role"
  /\ \/ /\ loc' = [loc EXCEPT !.role_arn = SETUP_ROLE_NAME \in aws.roles]
        /\ Pass("role", IF SETUP_ROLE_NAME \in aws.roles THEN "ok" ELSE "notfound",
                "table_create")
     \/ /\ UNCHANGED loc
        /\ Fault("role", "other", "aborted")
  /\ UNCHANGED <<aws, registry, kind, hist>>

\* labrole_arn(): get_role; NoSuchEntity -> sys.exit, any other error -> raise.
labrole_arn ==
  /\ At("role")
  /\ \/ /\ SETUP_ROLE_NAME \in aws.roles
        /\ loc' = [loc EXCEPT !.role_arn = TRUE]
        /\ Pass("role", "ok", "table_create")
     \/ /\ SETUP_ROLE_NAME \notin aws.roles
        /\ UNCHANGED loc
        /\ Pass("role", "notfound", "aborted")
     \/ /\ UNCHANGED loc
        /\ Fault("role", "other", "aborted")
  /\ UNCHANGED <<aws, registry, kind, hist>>

\* Faulty variant of ensure_dynamodb_table: the already-exists answer of
\* create_table is not caught.
TableCreateExistsFatal ==
  /\ kind = "setup" /\ pc = "table_create"
  /\ \/ /\ aws.table.status = "NONE"
        /\ aws' = [aws EXCEPT !.table = [status |-> "CREATING", gen |-> @.gen + 1,
                                       name |-> TABLE_NAME]]
        /\ faults' = faults
        /\ pc' = "table_wait"
        /\ obs' = [Note("table_create", "ok") EXCEPT !.created = @ \cup {"table"}]
     \/ /\ aws.table.status # "NONE"
        /\ UNCHANGED aws
        /\ Pass("table_create", "exists", "aborted")
     \/ /\ UNCHANGED aws
        /\ Fault("table_create", "other", "aborted")
  /\ UNCHANGED <<registry, kind, loc, hist>>

\* ensure_dynamodb_table: create_table; ResourceInUseException is caught and
\* skips the waiter.
TableCreate ==
  /\ At("table_create")
  /\ \/ /\ aws.table.status = "NONE"
        /\ aws' = [aws EXCEPT !.table = [status |-> "CREATING", gen |-> @.gen + 1,
                                       name |-> TABLE_NAME]]
        /\ faults' = faults
        /\ pc' = "table_wait"
        /\ obs' = [Note("table_create", "ok") EXCEPT !.created = @ \cup {"table"}]
     \/ /\ aws.table.status # "NONE"
        /\ UNCHANGED aws
        /\ Pass("table_create", "exists", "table_describe")
     \/ /\ UNCHANGED aws
        /\ Fault("table_create", "other", "aborted")
  /\ UNCHANGED <<registry, kind, loc, hist>>

\* waiter table_exists: returns when the table is ACTIVE, raises WaiterError
\* when it gives up or gets an unexpected answer.
TableWait ==
  /\ At("table_wait")
  /\ \/ /\ aws.table.status = "ACTIVE"
        /\ Pass("table_wait", "ok", "table_describe")
     \/ Fault("table_wait", "waiter", "aborted")
  /\ UNCHANGED <<aws, registry, kind, loc, hist>>

\* describe_table after the try block: returns (TableArn, LatestStreamArn).
TableDescribe ==
  /\ At("table_describe")
  /\ \/ /\ aws.table.status # "NONE"
        /\ loc' = [loc EXCEPT !.table_arn = TRUE, !.stream_arn = aws.table.gen]
        /\ Pass("table_describe", "ok", "topic_list")
     \/ /\ aws.table.status = "NONE"
        /\ UNCHANGED loc
        /\ Pass("table_describe", "notfound", "aborted")
     \/ /\ UNCHANGED loc
        /\ Fault("table_describe", "other", "aborted")
  /\ UNCHANGED <<aws, registry, kind, hist>>

\* The table service finishes a creation or a deletion on its own.
ProviderTableProgress ==
  /\ aws.table.status \in {"CREATING", "DELETING"}
  /\ aws' = [aws EXCEPT !.table.status =
                          IF @ = "CREATING" THEN "ACTIVE" ELSE "NONE"]
  /\ UNCHANGED <<registry, kind, pc, loc, hist, faults, obs>>

\* line 288: if SNS_SUBSCRIPTION_EMAIL; the address comes from the process
\* environment, which either sets it or does not.
AfterTopic == {"sub_list", "head_ingest"}

\* ensure_sns_topic_and_subscribe, lines 275-280: look the topic up by ARN suffix.
TopicList ==
  /\ At("topic_list")
  /\ \/ LET hits == {t \in aws.topics : TopicMatches(TopicArn(t), SNS_TOPIC_BASE)}
        IN  IF hits # {}
            THEN /\ loc' = [loc EXCEPT !.topic_arn = TopicArn(CHOOSE t \in hits : TRUE)]
                 /\ \E next \in AfterTopic : Pass("topic_list", "ok", next)
            ELSE /\ UNCHANGED loc
                 /\ Pass("topic_list", "ok", "topic_create")
     \/ /\ UNCHANGED loc
        /\ Fault("topic_list", "other", "aborted")
  /\ UNCHANGED <<aws, registry, kind, hist>>

\* lines 281-285: create_topic (the provider returns the topic of that name).
TopicCreate ==
  /\ At("topic_create")
  /\ \/ /\ aws' = [aws EXCEPT !.topics = @ \cup {SNS_TOPIC_BASE}]
        /\ loc' = [loc EXCEPT !.topic_arn = TopicArn(SNS_TOPIC_BASE)]
        /\ faults' = faults
        /\ pc' \in AfterTopic
        /\ obs' = [Note("topic_create", "ok") EXCEPT !.created = @ \cup {"topic"}]
     \/ /\ UNCHANGED <<aws, loc>>
        /\ Fault("topic_create", "other", "aborted")
  /\ UNCHANGED <<registry, kind, hist>>

\* Faulty variant of the subscription lookup: the address is never found.
SubListNeverFinds ==
  /\ kind = "setup" /\ pc = "sub_list"
  /\ \/ Pass("sub_list", "ok", "sub_subscribe")
     \/ Fault("sub_list", "other", "head_ingest")
  /\ UNCHANGED <<aws, registry, kind, loc, hist>>

\* lines 288-297: list_subscriptions_by_topic inside try/except ClientError.
SubList ==
  /\ At("sub_list")
  /\ \/ Pass("sub_list", "ok", IF aws.subs > 0 THEN "head_ingest" ELSE "sub_subscribe")
     \/ Fault("sub_list", "other", "head_ingest")
  /\ UNCHANGED <<aws, registry, kind, loc, hist>>

\* lines 298-308: subscribe inside the same try/except ClientError.
SubSubscribe ==
  /\ At("sub_subscribe")
  /\ \/ /\ aws' = [aws EXCEPT !.subs = @ + 1]
        /\ Pass("sub_subscribe", "ok", "head_ingest")
     \/ /\ UNCHANGED aws
        /\ Fault("sub_subscribe", "other", "head_ingest")
  /\ UNCHANGED <<registry, kind, loc, hist>>

\* ---------------------------------------------------------------- buckets
BucketOf(w) == IF w = "ingest" THEN IngestBucket(loc.suffix) ELSE WebBucket(loc.suffix)
HeadPc(w) == IF w = "ingest" THEN "head_ingest" ELSE "head_web"
CreatePc(w) == IF w = "ingest" THEN "create_ingest" ELSE "create_web"
AfterBucket(w) == IF w = "ingest" THEN "head_web" ELSE "web_bpa"

\* bucket_exists: head_bucket; every ClientError answers False.
bucket_exists(w) ==
  /\ At(HeadPc(w))
  /\ \/ /\ BucketOf(w) \in DOMAIN aws.buckets
        /\ loc' = [loc EXCEPT !.found = TRUE]
        /\ Pass(HeadPc(w), "ok", AfterBucket(w))
     \/ /\ BucketOf(w) \notin DOMAIN aws.buckets
        /\ loc' = [loc EXCEPT !.found = FALSE]
        /\ Pass(HeadPc(w), "notfound", CreatePc(w))
     \/ /\ loc' = [loc EXCEPT !.found = FALSE]
        /\ Fault(HeadPc(w), "other", CreatePc(w))
  /\ UNCHANGED <<aws, registry, kind, hist>>

\* create_bucket, called by ensure_bucket with no except clause.  For a name
\* that exists the provider answers already-exists (BucketAlreadyExists,
\* BucketAlreadyOwnedByYou) or, for the caller's own bucket in us-east-1, success.
create_bucket(w) ==
  /\ At(CreatePc(w))
  /\ \/ /\ BucketOf(w) \notin DOMAIN aws.buckets
        /\ aws' = [aws EXCEPT !.buckets = Put(@, BucketOf(w), NewBucket)]
        /\ faults' = faults
        /\ pc' = AfterBucket(w)
        /\ obs' = [Note(CreatePc(w), "ok") EXCEPT !.created = @ \cup {w}]
     \/ /\ BucketOf(w) \in DOMAIN aws.buckets
        /\ UNCHANGED aws
        /\ \/ Pass(CreatePc(w), "exists", "aborted")
           \/ Pass(CreatePc(w), "ok", AfterBucket(w))
     \/ /\ UNCHANGED aws
        /\ Fault(CreatePc(w), "other", "aborted")
  /\ UNCHANGED <<registry, kind, loc, hist>>

\* disable_bucket_bpa: put_public_access_block inside try/except ClientError.
disable_bucket_bpa ==
  /\ At("web_bpa")
  /\ \/ /\ aws' = [aws EXCEPT !.buckets[WebBucket(loc.suffix)].bpaOff = TRUE]
        /\ Pass("web_bpa", "ok", "web_policy")
     \/ /\ UNCHANGED aws
        /\ Fault("web_bpa", "other", "web_policy")
  /\ UNCHANGED <<registry, kind, loc, hist>>

\* Faulty variant of apply_web_public_policy: the error is printed, not raised.
apply_web_public_policy_warn ==
  /\ At("web_policy")
  /\ \/ /\ aws' = [aws EXCEPT !.buckets[WebBucket(loc.suffix)].policy = TRUE]
        /\ Pass("web_policy", "ok", "web_website")
     \/ /\ UNCHANGED aws
        /\ Fault("web_policy", "other", "web_website")
  /\ UNCHANGED <<registry, kind, loc, hist>>

\* apply_web_public_policy: put_bucket_policy, errors propagate.
apply_web_public_policy ==
  /\ At("web_policy")
  /\ \/ /\ aws' = [aws EXCEPT !.buckets[WebBucket(loc.suffix)].policy = TRUE]
        /\ Pass("web_policy", "ok", "web_website")
     \/ /\ UNCHANGED aws
        /\ Fault("web_policy", "other", "aborted")
  /\ UNCHANGED <<registry, kind, loc, hist>>

\* ensure_bucket lines 113-117: put_bucket_website, errors propagate.
PutBucketWebsite ==
  /\ At("web_website")
  /\ \/ /\ aws' = [aws EXCEPT !.buckets[WebBucket(loc.suffix)].website = TRUE]
        /\ Pass("web_website", "ok", "lambda_create_A")
     \/ /\ UNCHANGED aws
        /\ Fault("web_website", "other", "aborted")
  /\ UNCHANGED <<registry, kind, loc, hist>>

\* --------------------------------------------------------------- handlers
LambdaCreatePc(h) ==
  CASE h = "A" -> "lambda_create_A" [] h = "B" -> "lambda_create_B"
    [] h = "C" -> "lambda_create_C"
LambdaUpdatePc(h) ==
  CASE h = "A" -> "lambda_update_A" [] h = "B" -> "lambda_update_B"
    [] h = "C" -> "lambda_update_C"
LambdaGetPc(h) ==
  CASE h = "A" -> "lambda_get_A" [] h = "B" -> "lambda_get_B"
    [] h = "C" -> "lambda_get_C"
\* __main__ lines 386-410: what follows each ensure_lambda call.
AfterLambda(h) ==
  CASE h = "A" -> "s3_permission" [] h = "B" -> "lambda_create_C"
    [] h = "C" -> "esm_list"
LambdaEnv(h) == IF h = "C" THEN loc.topic_arn ELSE None

\* ensure_lambda lines 190-203: create_function; ResourceConflictException is caught.
LambdaCreate(h) ==
  /\ At(LambdaCreatePc(h))
  /\ LET fn == LambdaName(h, loc.suffix) IN
     \/ /\ fn \notin DOMAIN aws.lambdas
        /\ aws' = [aws EXCEPT !.lambdas = Put(@, fn, [NewLambda EXCEPT !.topic = LambdaEnv(h)])]
        /\ faults' = faults
        /\ pc' = LambdaGetPc(h)
        /\ obs' = [Note(LambdaCreatePc(h), "ok") EXCEPT !.created = @ \cup {h}]
     \/ /\ fn \in DOMAIN aws.lambdas
        /\ UNCHANGED aws
        /\ Pass(LambdaCreatePc(h), "exists", LambdaUpdatePc(h))
     \/ /\ UNCHANGED aws
        /\ Fault(LambdaCreatePc(h), "other", "aborted")
  /\ UNCHANGED <<registry, kind, loc, hist>>

\* lines 204-213: update code, update configuration, wait for the update.
LambdaUpdate(h) ==
  /\ At(LambdaUpdatePc(h))
  /\ LET fn == LambdaName(h, loc.suffix) IN
     \/ /\ fn \in DOMAIN aws.lambdas
        /\ aws' = [aws EXCEPT !.lambdas[fn].topic = LambdaEnv(h)]
        /\ Pass(LambdaUpdatePc(h), "ok", LambdaGetPc(h))
     \/ /\ fn \notin DOMAIN aws.lambdas
        /\ UNCHANGED aws
        /\ Pass(LambdaUpdatePc(h), "notfound", "aborted")
     \/ /\ UNCHANGED aws
        /\ Fault(LambdaUpdatePc(h), "other", "aborted")
  /\ UNCHANGED <<registry, kind, loc, hist>>

\* Faulty variant of the end of ensure_lambda: a failed get_function returns
\* no identifier and the run goes on.
LambdaGetUnchecked(h) ==
  /\ At(LambdaGetPc(h))
  /\ \/ /\ LambdaName(h, loc.suffix) \in DOMAIN aws.lambdas
        /\ loc' = [loc EXCEPT !.arns = @ \cup {h}]
        /\ Pass(LambdaGetPc(h), "ok", AfterLambda(h))
     \/ /\ UNCHANGED loc
        /\ Fault(LambdaGetPc(h), "other", AfterLambda(h))
  /\ UNCHANGED <<aws, registry, kind, hist>>

\* line 215: get_function gives the identifier ensure_lambda returns.
LambdaGet(h) ==
  /\ At(LambdaGetPc(h))
  /\ \/ /\ LambdaName(h, loc.suffix) \in DOMAIN aws.lambdas
        /\ loc' = [loc EXCEPT !.arns = @ \cup {h}]
        /\ Pass(LambdaGetPc(h), "ok", AfterLambda(h))
     \/ /\ LambdaName(h, loc.suffix) \notin DOMAIN aws.lambdas
        /\ UNCHANGED loc
        /\ Pass(LambdaGetPc(h), "notfound", "aborted")
     \/ /\ UNCHANGED loc
        /\ Fault(LambdaGetPc(h), "other", "aborted")
  /\ UNCHANGED <<aws, registry, kind, hist>>

\* --------------------------------------------------------------- triggers
\* Faulty variant of the permission step: an error of add_permission is
\* printed and the notification is installed all the same.
S3PermissionSwallowsErrors ==
  /\ kind = "setup" /\ pc = "s3_permission"
  /\ LET fn == LambdaName("A", loc.suffix) IN
     \/ /\ fn \in DOMAIN aws.lambdas /\ "s3" \notin aws.lambdas[fn].perms
        /\ aws' = [aws EXCEPT !.lambdas[fn].perms = @ \cup {"s3"}]
        /\ Pass("s3_permission", "ok", "s3_sleep")
     \/ /\ fn \in DOMAIN aws.lambdas /\ "s3" \in aws.lambdas[fn].perms
        /\ UNCHANGED aws
        /\ Pass("s3_permission", "exists", "s3_notification")
     \/ /\ fn \notin DOMAIN aws.lambdas
        /\ UNCHANGED aws
        /\ Pass("s3_permission", "notfound", "s3_notification")
     \/ /\ UNCHANGED aws
        /\ Fault("s3_permission", "other", "s3_notification")
  /\ UNCHANGED <<registry, kind, loc, hist>>

\* add_s3_trigger_to_lambda lines 229-246: add_permission; the already-exists
\* answer is recognised by its message and skips the sleep, any other error
\* is raised again.
S3Permission ==
  /\ At("s3_permission")
  /\ LET fn == LambdaName("A", loc.suffix) IN
     \/ /\ fn \in DOMAIN aws.lambdas /\ "s3" \notin aws.lambdas[fn].perms
        /\ aws' = [aws EXCEPT !.lambdas[fn].perms = @ \cup {"s3"}]
        /\ Pass("s3_permission", "ok", "s3_sleep")
     \/ /\ fn \in DOMAIN aws.lambdas /\ "s3" \in aws.lambdas[fn].perms
        /\ UNCHANGED aws
        /\ Pass("s3_permission", "exists", "s3_notification")
     \/ /\ fn \notin DOMAIN aws.lambdas
        /\ UNCHANGED aws
        /\ Pass("s3_permission", "notfound", "aborted")
     \/ /\ UNCHANGED aws
        /\ Fault("s3_permission", "other", "aborted")
  /\ UNCHANGED <<registry, kind, loc, hist>>

\* line 239: time.sleep(5) after a fresh grant.
S3Sleep ==
  /\ At("s3_sleep")
  /\ Pass("s3_sleep", "ok", "s3_notification")
  /\ UNCHANGED <<aws, registry, kind, loc, hist>>

\* lines 248-268: put_bucket_notification_configuration, errors propagate.
S3Notification ==
  /\ At("s3_notification")
  /\ LET b == IngestBucket(loc.suffix) IN
     \/ /\ b \in DOMAIN aws.buckets
        /\ aws' = [aws EXCEPT !.buckets[b].notif = LambdaName("A", loc.suffix)]
        /\ Pass("s3_notification", "ok", "lambda_create_B")
     \/ /\ b \notin DOMAIN aws.buckets
        /\ UNCHANGED aws
        /\ Pass("s3_notification", "notfound", "aborted")
     \/ /\ UNCHANGED aws
        /\ Fault("s3_notification", "other", "aborted")
  /\ UNCHANGED <<registry, kind, loc, hist>>

MappingsOf(stream, fn) == {m \in aws.esms : m.stream = stream /\ m.fn = fn}
NextUuid == 1 + (IF aws.esms = {} THEN 0
                 ELSE (CHOOSE u \in {m.uuid : m \in aws.esms} :
                         \A m \in aws.esms : m.uuid <= u))

\* ensure_dynamodb_stream_trigger lines 318-323: list the mappings of the pair.
EsmList ==
  /\ At("esm_list")
  /\ \/ LET found == {m.uuid : m \in MappingsOf(loc.stream_arn, LambdaName("C", loc.suffix))}
        IN  /\ loc' = [loc EXCEPT !.existing = found]
            /\ Pass("esm_list", "ok", IF found # {} THEN "esm_update" ELSE "esm_create")
     \/ /\ UNCHANGED loc
        /\ Fault("esm_list", "other", "aborted")
  /\ UNCHANGED <<aws, registry, kind, hist>>

\* Faulty variant of the create branch: the mapping is created disabled.
EsmCreateDisabled ==
  /\ kind = "setup" /\ pc = "esm_create"
  /\ \/ /\ aws' = [aws EXCEPT !.esms = @ \cup
                     {[uuid |-> NextUuid, stream |-> loc.stream_arn,
                       fn |-> LambdaName("C", loc.suffix),
                       enabled |-> FALSE, batch |-> BatchSize]}]
        /\ loc' = [loc EXCEPT !.uuid = NextUuid]
        /\ faults' = faults
        /\ pc' = "api_create"
        /\ obs' = [Note("esm_create", "ok") EXCEPT !.created = @ \cup {"esm"}]
     \/ /\ UNCHANGED <<aws, loc>>
        /\ Fault("esm_create", "other", "aborted")
  /\ UNCHANGED <<registry, kind, hist>>

\* Faulty variant of the found branch: a mapping is created although one exists.
EsmUpdateDuplicates ==
  /\ kind = "setup" /\ pc = "esm_update"
  /\ \/ /\ aws' = [aws EXCEPT !.esms = @ \cup
                     {[uuid |-> NextUuid, stream |-> loc.stream_arn,
                       fn |-> LambdaName("C", loc.suffix),
                       enabled |-> TRUE, batch |-> BatchSize]}]
        /\ loc' = [loc EXCEPT !.uuid = NextUuid]
        /\ Pass("esm_update", "ok", "api_create")
     \/ /\ UNCHANGED <<aws, loc>>
        /\ Fault("esm_update", "other", "aborted")
  /\ UNCHANGED <<registry, kind, hist>>

\* lines 323-331: update_event_source_mapping on existing[0].
EsmUpdate ==
  /\ At("esm_update")
  /\ \/ \E u \in loc.existing :
          /\ \A v \in loc.existing : u <= v
          /\ aws' = [aws EXCEPT !.esms =
                       {IF m.uuid = u
                        THEN [m EXCEPT !.enabled = TRUE, !.batch = BatchSize] ELSE m : m \in @}]
          /\ loc' = [loc EXCEPT !.uuid = u]
          /\ Pass("esm_update", "ok", "api_create")
     \/ /\ UNCHANGED <<aws, loc>>
        /\ Fault("esm_update", "other", "aborted")
  /\ UNCHANGED <<registry, kind, hist>>

\* lines 333-342: create_event_source_mapping.
EsmCreate ==
  /\ At("esm_create")
  /\ \/ /\ aws' = [aws EXCEPT !.esms = @ \cup
                     {[uuid |-> NextUuid, stream |-> loc.stream_arn,
                       fn |-> LambdaName("C", loc.suffix),
                       enabled |-> TRUE, batch |-> BatchSize]}]
        /\ loc' = [loc EXCEPT !.uuid = NextUuid]
        /\ faults' = faults
        /\ pc' = "api_create"
        /\ obs' = [Note("esm_create", "ok") EXCEPT !.created = @ \cup {"esm"}]
     \/ /\ UNCHANGED <<aws, loc>>
        /\ Fault("esm_create", "other", "aborted")
  /\ UNCHANGED <<registry, kind, hist>>

\* ------------------------------------------------------------ HTTP gateway
\* create_api(Name=f"inventory-api-{suffix}", ...)
NewApi(s) == [name |-> Name(API_NAME_BASE, s), integration |-> FALSE, routes |-> {}, stage |-> FALSE]

\* Faulty variant of the API step: an API that exists is looked up and reused.
ApiCreateReusesExisting ==
  /\ kind = "setup" /\ pc = "api_create"
  /\ \/ /\ aws' = IF aws.apis = <<>>
                    THEN [aws EXCEPT !.apis = Append(@, NewApi(loc.suffix))]
                    ELSE aws
        /\ loc' = [loc EXCEPT !.api_id = IF aws.apis = <<>> THEN 1 ELSE Len(aws.apis)]
        /\ Pass("api_create", "ok", "api_integration")
     \/ /\ UNCHANGED <<aws, loc>>
        /\ Fault("api_create", "other", "aborted")
  /\ UNCHANGED <<registry, kind, hist>>

\* __main__ lines 418-428: create_api, with no lookup of an existing API.
ApiCreate ==
  /\ At("api_create")
  /\ \/ /\ aws' = [aws EXCEPT !.apis = Append(@, NewApi(loc.suffix))]
        /\ loc' = [loc EXCEPT !.api_id = Len(aws.apis) + 1]
        /\ Pass("api_create", "ok", "api_integration")
     \/ /\ UNCHANGED <<aws, loc>>
        /\ Fault("api_create", "other", "aborted")
  /\ UNCHANGED <<registry, kind, hist>>

\* lines 430-441: create_integration towards handler B.
ApiIntegration ==
  /\ At("api_integration")
  /\ \/ /\ aws' = [aws EXCEPT !.apis[loc.api_id].integration = TRUE]
        /\ loc' = [loc EXCEPT !.integration = TRUE]
        /\ Pass("api_integration", "ok", "api_route_items")
     \/ /\ UNCHANGED <<aws, loc>>
        /\ Fault("api_integration", "other", "aborted")
  /\ UNCHANGED <<registry, kind, hist>>

RoutePc(r) == IF r = "GET /items" THEN "api_route_items" ELSE "api_route_store"
AfterRoute(r) == IF r = "GET /items" THEN "api_route_store" ELSE "api_stage"

\* lines 444-454: create_route, once per route key.
ApiRoute(r) ==
  /\ At(RoutePc(r))
  /\ \/ /\ aws' = [aws EXCEPT !.apis[loc.api_id].routes = @ \cup {r}]
        /\ Pass(RoutePc(r), "ok", AfterRoute(r))
     \/ /\ UNCHANGED aws
        /\ Fault(RoutePc(r), "other", "aborted")
  /\ UNCHANGED <<registry, kind, loc, hist>>

\* lines 456-461: create_stage.
ApiStage ==
  /\ At("api_stage")
  /\ \/ /\ aws' = [aws EXCEPT !.apis[loc.api_id].stage = TRUE]
        /\ Pass("api_stage", "ok", "api_permission")
     \/ /\ UNCHANGED aws
        /\ Fault("api_stage", "other", "aborted")
  /\ UNCHANGED <<registry, kind, loc, hist>>

\* lines 466-474: add_permission with the fixed statement id apigw_invoke and
\* no except clause.
ApiPermission ==
  /\ At("api_permission")
  /\ LET fn == LambdaName("B", loc.suffix) IN
     \/ /\ fn \in DOMAIN aws.lambdas /\ "apigw_invoke" \notin aws.lambdas[fn].perms
        /\ aws' = [aws EXCEPT !.lambdas[fn].perms = @ \cup {"apigw_invoke"}]
        /\ Pass("api_permission", "ok", "upload_index")
     \/ /\ fn \in DOMAIN aws.lambdas /\ "apigw_invoke" \in aws.lambdas[fn].perms
        /\ UNCHANGED aws
        /\ Pass("api_permission", "exists", "aborted")
     \/ /\ fn \notin DOMAIN aws.lambdas
        /\ UNCHANGED aws
        /\ Pass("api_permission", "notfound", "aborted")
     \/ /\ UNCHANGED aws
        /\ Fault("api_permission", "other", "aborted")
  /\ UNCHANGED <<registry, kind, loc, hist>>

\* lines 476-498: upload web/index.html when the local file exists.
UploadIndex ==
  /\ At("upload_index")
  /\ LET b == WebBucket(loc.suffix) IN
     \/ /\ b \in DOMAIN aws.buckets
        /\ aws' = [aws EXCEPT !.buckets[b].objects = 1]
        /\ Pass("upload_index", "ok", "save_registry")
     \/ /\ UNCHANGED aws
        /\ Pass("upload_index", "skipped", "save_registry")
     \/ /\ UNCHANGED aws
        /\ Fault("upload_index", "other", "aborted")
  /\ UNCHANGED <<registry, kind, loc, hist>>

\* Faulty variant of the registry save: a failed write ends the run.
SaveRegistryFatal ==
  /\ kind = "setup" /\ pc = "save_registry"
  /\ \/ /\ registry' = loc.suffix
        /\ Pass("save_registry", "ok", "done")
     \/ /\ UNCHANGED registry
        /\ Fault("save_registry", "other", "aborted")
  /\ UNCHANGED <<aws, kind, loc, hist>>

\* lines 503-522: shelve write inside try/except dbm_error, then the final report.
SaveRegistry ==
  /\ At("save_registry")
  /\ \/ /\ registry' = loc.suffix
        /\ Pass("save_registry", "ok", "done")
     \/ /\ UNCHANGED registry
        /\ Fault("save_registry", "other", "done")
  /\ UNCHANGED <<aws, kind, loc, hist>>

\* ========================================================= decommissioner
TeardownLoc ==
  [ suffix |-> "none", pi |-> 1, todo |-> {}, cur |-> None, rmErr |-> FALSE ]

Td(p) == kind = "teardown" /\ pc = p

StartTeardown ==
  /\ Ended
  /\ RunsStarted < MaxRuns
  /\ loc' = TeardownLoc
  /\ kind' = "teardown"
  /\ pc' = "td_buckets"
  /\ hist' = Archive
  /\ obs' = NoObs
  /\ UNCHANGED <<aws, registry, faults>>

\* __main__ lines 179-187: list_buckets once per prefix, inside try/except Exception.
AfterBucketPrefix == IF loc.pi < Len(BUCKET_PREFIXES) THEN "td_buckets" ELSE "td_functions"
ListBuckets ==
  /\ Td("td_buckets")
  /\ \/ /\ loc' = [loc EXCEPT !.todo = {b \in DOMAIN aws.buckets :
                                          StartsWith(b, BUCKET_PREFIXES[loc.pi])}]
        /\ Pass("td_buckets", "ok", "bk_next")
     \/ /\ loc' = [loc EXCEPT !.pi = IF @ < Len(BUCKET_PREFIXES) THEN @ + 1 ELSE 1,
                              !.todo = {}]
        /\ CanFail
        /\ faults' = faults + 1
        /\ pc' = AfterBucketPrefix
        /\ obs' = Report(Note("td_buckets", "other"), "list_error", None)
  /\ UNCHANGED <<aws, registry, kind, hist>>

\* The for loop over the listing: the next matching bucket, or the next prefix.
NextBucket ==
  /\ Td("bk_next")
  /\ IF loc.todo = {}
     THEN /\ loc' = [loc EXCEPT !.pi = IF @ < Len(BUCKET_PREFIXES) THEN @ + 1 ELSE 1,
                                !.cur = None]
          /\ Pass("bk_next", "ok", AfterBucketPrefix)
     ELSE /\ LET b == CHOOSE x \in loc.todo : TRUE
             IN  loc' = [loc EXCEPT !.cur = b, !.todo = @ \ {b}, !.rmErr = FALSE]
          /\ Pass("bk_next", "ok", "bk_clear")
  /\ UNCHANGED <<aws, registry, kind, hist>>

\* delete_bucket_globally lines 49-66: three configuration calls, each inside
\* its own try/except ClientError: pass.
BucketClear ==
  /\ Td("bk_clear")
  /\ LET b == loc.cur
         cleared == [aws.buckets[b] EXCEPT !.notif = None, !.policy = FALSE, !.bpaOff = TRUE]
     IN
     \/ /\ b \in DOMAIN aws.buckets
        /\ aws' = [aws EXCEPT !.buckets[b] = cleared]
        /\ Pass("bk_clear", "ok", "bk_objects")
     \/ /\ b \in DOMAIN aws.buckets
        /\ \E keep \in {"notif", "policy", "bpaOff"} :
             aws' = [aws EXCEPT !.buckets[b] = [cleared EXCEPT ![keep] = aws.buckets[b][keep]]]
        /\ Fault("bk_clear", "other", "bk_objects")
  /\ UNCHANGED <<registry, kind, loc, hist>>

\* lines 70-76: bucket.objects.all().delete(); per-object errors come back in
\* the response and are printed, a failed call raises ClientError.
BucketObjects ==
  /\ Td("bk_objects")
  /\ LET b == loc.cur IN
     \/ /\ aws' = [aws EXCEPT !.buckets[b].objects = 0]
        /\ UNCHANGED loc
        /\ Pass("bk_objects", "ok", "bk_versions")
     \/ /\ \E left \in 1..aws.buckets[b].objects :
             aws' = [aws EXCEPT !.buckets[b].objects = left]
        /\ loc' = [loc EXCEPT !.rmErr = TRUE]
        /\ CanFail
        /\ faults' = faults + 1
        /\ pc' = "bk_versions"
        /\ obs' = Report(Note("bk_objects", "partial"), "objects_warning", b)
     \/ /\ UNCHANGED <<aws, loc>>
        /\ CanFail
        /\ faults' = faults + 1
        /\ pc' = "bk_next"
        /\ obs' = Report(Note("bk_objects", "other"), "bucket_error", b)
  /\ UNCHANGED <<registry, kind, hist>>

\* Faulty variant of delete_bucket_globally: the versions are not deleted.
BucketVersionsSkipped ==
  /\ Td("bk_versions")
  /\ Pass("bk_versions", "ok", "bk_delete")
  /\ UNCHANGED <<aws, registry, kind, loc, hist>>

\* line 79: bucket.object_versions.delete(); the response is not looked at.
BucketVersions ==
  /\ Td("bk_versions")
  /\ LET b == loc.cur IN
     \/ /\ aws' = [aws EXCEPT !.buckets[b].objects = 0, !.buckets[b].versions = 0]
        /\ UNCHANGED loc
        /\ Pass("bk_versions", "ok", "bk_delete")
     \/ /\ \E n \in 0..aws.buckets[b].objects, m \in 0..aws.buckets[b].versions :
             /\ n + m > 0
             /\ aws' = [aws EXCEPT !.buckets[b].objects = n, !.buckets[b].versions = m]
        /\ loc' = [loc EXCEPT !.rmErr = TRUE]
        /\ Fault("bk_versions", "partial", "bk_delete")
     \/ /\ UNCHANGED <<aws, loc>>
        /\ CanFail
        /\ faults' = faults + 1
        /\ pc' = "bk_next"
        /\ obs' = Report(Note("bk_versions", "other"), "bucket_error", b)
  /\ UNCHANGED <<registry, kind, hist>>

\* lines 84-94: delete_bucket; the provider refuses a bucket that is not empty.
BucketDelete ==
  /\ Td("bk_delete")
  /\ LET b == loc.cur IN
     \/ /\ aws.buckets[b].objects + aws.buckets[b].versions = 0
        /\ aws' = [aws EXCEPT !.buckets = Drop(@, b)]
        /\ Pass("bk_delete", "ok", "bk_next")
     \/ /\ aws.buckets[b].objects + aws.buckets[b].versions > 0
        /\ UNCHANGED aws
        /\ faults' = faults
        /\ pc' = "bk_next"
        /\ obs' = Report(Note("bk_delete", "notempty"), "bucket_error", b)
     \/ /\ UNCHANGED aws
        /\ CanFail
        /\ faults' = faults + 1
        /\ pc' = "bk_next"
        /\ obs' = Report(Note("bk_delete", "other"), "bucket_error", b)
  /\ UNCHANGED <<registry, kind, loc, hist>>

\* Faulty variant of the handler selection: only the handlers of the suffix in
\* the registry are selected.
ListFunctionsFromRegistry ==
  /\ kind = "teardown" /\ pc = "td_functions"
  /\ \/ /\ loc' = [loc EXCEPT !.todo = {f \in DOMAIN aws.lambdas :
                                          /\ StartsWith(f, LAMBDA_PREFIXES[loc.pi])
                                          /\ f[Len(f)] = registry}]
        /\ Pass("td_functions", "ok", "fn_next")
     \/ /\ loc' = [loc EXCEPT !.pi = IF @ < Len(LAMBDA_PREFIXES) THEN @ + 1 ELSE 1,
                              !.todo = {}]
        /\ CanFail
        /\ faults' = faults + 1
        /\ pc' = IF loc.pi < Len(LAMBDA_PREFIXES) THEN "td_functions" ELSE "tt_describe"
        /\ obs' = Report(Note("td_functions", "other"), "list_error", None)
  /\ UNCHANGED <<aws, registry, kind, hist>>

\* __main__ lines 192-201: list_functions once per prefix, inside try/except Exception.
AfterFunctionPrefix == IF loc.pi < Len(LAMBDA_PREFIXES) THEN "td_functions" ELSE "tt_describe"
ListFunctions ==
  /\ Td("td_functions")
  /\ \/ /\ loc' = [loc EXCEPT !.todo = {f \in DOMAIN aws.lambdas :
                                          StartsWith(f, LAMBDA_PREFIXES[loc.pi])}]
        /\ Pass("td_functions", "ok", "fn_next")
     \/ /\ loc' = [loc EXCEPT !.pi = IF @ < Len(LAMBDA_PREFIXES) THEN @ + 1 ELSE 1,
                              !.todo = {}]
        /\ CanFail
        /\ faults' = faults + 1
        /\ pc' = AfterFunctionPrefix
        /\ obs' = Report(Note("td_functions", "other"), "list_error", None)
  /\ UNCHANGED <<aws, registry, kind, hist>>

NextFunction ==
  /\ Td("fn_next")
  /\ IF loc.todo = {}
     THEN /\ loc' = [loc EXCEPT !.pi = IF @ < Len(LAMBDA_PREFIXES) THEN @ + 1 ELSE 1,
                                !.cur = None]
          /\ Pass("fn_next", "ok", AfterFunctionPrefix)
     ELSE /\ LET f == CHOOSE x \in loc.todo : TRUE
             IN  loc' = [loc EXCEPT !.cur = f, !.todo = @ \ {f}]
          /\ Pass("fn_next", "ok", "fn_mappings")
  /\ UNCHANGED <<aws, registry, kind, hist>>

\* Faulty variant of the mapping step: its error is printed and the function
\* is deleted all the same.
FunctionMappingsIgnoresErrors ==
  /\ kind = "teardown" /\ pc = "fn_mappings"
  /\ LET mine == {m \in aws.esms : m.fn = loc.cur} IN
     \/ /\ aws' = [aws EXCEPT !.esms = @ \ mine]
        /\ Pass("fn_mappings", "ok", "fn_delete")
     \/ /\ \E gone \in SUBSET mine :
             /\ gone # mine \/ mine = {}
             /\ aws' = [aws EXCEPT !.esms = @ \ gone]
        /\ CanFail
        /\ faults' = faults + 1
        /\ pc' = "fn_delete"
        /\ obs' = Report(Note("fn_mappings", "other"), "lambda_error", loc.cur)
  /\ UNCHANGED <<registry, kind, loc, hist>>

\* delete_lambda_globally lines 101-107: list the handler's mappings and delete
\* each; a ClientError of either call leaves the function (except at line 112).
FunctionMappings ==
  /\ Td("fn_mappings")
  /\ LET mine == {m \in aws.esms : m.fn = loc.cur} IN
     \/ /\ aws' = [aws EXCEPT !.esms = @ \ mine]
        /\ Pass("fn_mappings", "ok", "fn_delete")
     \/ /\ \E gone \in SUBSET mine :
             /\ gone # mine \/ mine = {}
             /\ aws' = [aws EXCEPT !.esms = @ \ gone]
        /\ CanFail
        /\ faults' = faults + 1
        /\ pc' = "fn_next"
        /\ obs' = Report(Note("fn_mappings", "other"), "lambda_error", loc.cur)
  /\ UNCHANGED <<registry, kind, loc, hist>>

\* lines 110-116: delete_function.
FunctionDelete ==
  /\ Td("fn_delete")
  /\ \/ /\ loc.cur \in DOMAIN aws.lambdas
        /\ aws' = [aws EXCEPT !.lambdas = Drop(@, loc.cur)]
        /\ Pass("fn_delete", "ok", "fn_next")
     \/ /\ UNCHANGED aws
        /\ CanFail
        /\ faults' = faults + 1
        /\ pc' = "fn_next"
        /\ obs' = Report(Note("fn_delete", "other"), "lambda_error", loc.cur)
  /\ UNCHANGED <<registry, kind, loc, hist>>

\* describe_table(TableName=name) finds the table of that name.
TableExists(name) == aws.table.status # "NONE" /\ aws.table.name = name

\* Faulty variant of delete_dynamodb_table: a missing table is not caught.
TdTableDescribeStrict ==
  /\ kind = "teardown" /\ pc = "tt_describe"
  /\ \/ /\ TableExists(TEARDOWN_TABLE_NAME)
        /\ Pass("tt_describe", "ok", "tt_delete")
     \/ /\ ~TableExists(TEARDOWN_TABLE_NAME)
        /\ Pass("tt_describe", "notfound", "aborted")
     \/ /\ CanFail
        /\ faults' = faults + 1
        /\ pc' = "tp_list"
        /\ obs' = Report(Note("tt_describe", "other"), "table_error", None)
  /\ UNCHANGED <<aws, registry, kind, loc, hist>>

\* delete_dynamodb_table line 122: describe_table, ClientError caught at line 128.
TdTableDescribe ==
  /\ Td("tt_describe")
  /\ \/ /\ TableExists(TEARDOWN_TABLE_NAME)
        /\ Pass("tt_describe", "ok", "tt_delete")
     \/ /\ ~TableExists(TEARDOWN_TABLE_NAME)
        /\ Pass("tt_describe", "notfound", "tp_list")
     \/ /\ CanFail
        /\ faults' = faults + 1
        /\ pc' = "tp_list"
        /\ obs' = Report(Note("tt_describe", "other"), "table_error", None)
  /\ UNCHANGED <<aws, registry, kind, loc, hist>>

\* line 123: delete_table; a table being created or deleted answers
\* ResourceInUseException, a ClientError.
TdTableDelete ==
  /\ Td("tt_delete")
  /\ \/ /\ aws.table.status = "ACTIVE"
        /\ aws' = [aws EXCEPT !.table.status = "DELETING"]
        /\ Pass("tt_delete", "ok", "tt_wait")
     \/ /\ aws.table.status = "NONE"
        /\ UNCHANGED aws
        /\ Pass("tt_delete", "notfound", "tp_list")
     \/ /\ aws.table.status \in {"CREATING", "DELETING"}
        /\ UNCHANGED aws
        /\ faults' = faults
        /\ pc' = "tp_list"
        /\ obs' = Report(Note("tt_delete", "inuse"), "table_error", None)
     \/ /\ UNCHANGED aws
        /\ CanFail
        /\ faults' = faults + 1
        /\ pc' = "tp_list"
        /\ obs' = Report(Note("tt_delete", "other"), "table_error", None)
  /\ UNCHANGED <<registry, kind, loc, hist>>

\* lines 125-127: waiter table_not_exists; it raises WaiterError, which is no
\* ClientError, so neither line 128 nor __main__ catches it.
TdTableWait ==
  /\ Td("tt_wait")
  /\ \/ /\ aws.table.status = "NONE"
        /\ Pass("tt_wait", "ok", "tp_list")
     \/ Fault("tt_wait", "waiter", "aborted")
  /\ UNCHANGED <<aws, registry, kind, loc, hist>>

\* Faulty variant of the topic selection: the base name without the dash.
ListTopicsByBase ==
  /\ kind = "teardown" /\ pc = "tp_list"
  /\ \/ /\ loc' = [loc EXCEPT !.todo = {n \in aws.topics :
                      StartsWith(LastSegment(TopicArn(n)), SNS_TOPIC_BASE)}]
        /\ Pass("tp_list", "ok", "tp_next")
     \/ /\ loc' = [loc EXCEPT !.todo = {}]
        /\ CanFail
        /\ faults' = faults + 1
        /\ pc' = "iam_policies"
        /\ obs' = Report(Note("tp_list", "other"), "list_error", None)
  /\ UNCHANGED <<aws, registry, kind, hist>>

\* __main__ lines 210-218: list_topics and the prefix test on the last ARN segment.
ListTopics ==
  /\ Td("tp_list")
  /\ \/ /\ loc' = [loc EXCEPT !.todo = {n \in aws.topics :
                      StartsWith(LastSegment(TopicArn(n)), SNS_TOPIC_PREFIX)}]
        /\ Pass("tp_list", "ok", "tp_next")
     \/ /\ loc' = [loc EXCEPT !.todo = {}]
        /\ CanFail
        /\ faults' = faults + 1
        /\ pc' = "iam_policies"
        /\ obs' = Report(Note("tp_list", "other"), "list_error", None)
  /\ UNCHANGED <<aws, registry, kind, hist>>

NextTopic ==
  /\ Td("tp_next")
  /\ IF loc.todo = {}
     THEN /\ loc' = [loc EXCEPT !.cur = None]
          /\ Pass("tp_next", "ok", "iam_policies")
     ELSE /\ LET n == CHOOSE x \in loc.todo : TRUE
             IN  loc' = [loc EXCEPT !.cur = n, !.todo = @ \ {n}]
          /\ Pass("tp_next", "ok", "tp_delete")
  /\ UNCHANGED <<aws, registry, kind, hist>>

\* delete_sns_topic_globally: delete_topic inside try/except ClientError.
delete_sns_topic_globally ==
  /\ Td("tp_delete")
  /\ \/ /\ aws' = [aws EXCEPT !.topics = @ \ {loc.cur}]
        /\ Pass("tp_delete", "ok", "tp_next")
     \/ /\ UNCHANGED aws
        /\ CanFail
        /\ faults' = faults + 1
        /\ pc' = "tp_next"
        /\ obs' = Report(Note("tp_delete", "other"), "topic_error", loc.cur)
  /\ UNCHANGED <<registry, kind, loc, hist>>

\* Faulty variant of the test at line 153: every attached policy is detached.
IsAnyAttachedPolicy(name) == Len(name) >= 0
\* delete_iam_policies line 153: 'AWSLambdaBasicExecutionRole' in policy['PolicyName']
IsBasicExecutionPolicy(name) == Contains(name, "AWSLambdaBasicExecutionRole")
\* line 160: startswith('PolicyA-') or startswith('PolicyB-') or startswith('PolicyC-')
IsWorkflowInlinePolicy(name) ==
  \/ StartsWith(name, <<"PolicyA", "-">>)
  \/ StartsWith(name, <<"PolicyB", "-">>)
  \/ StartsWith(name, <<"PolicyC", "-">>)

\* delete_iam_policies: detach the matching attached policies, then delete the
\* matching inline policies; a ClientError stops the function (NoSuchEntity
\* silently), with the calls made before it done.  The role name comes from
\* LAMBDA_ROLE_NAME, default voclabs-LabRole (line 22).
delete_iam_policies ==
  /\ Td("iam_policies")
  /\ \E r \in RoleNames :
     \/ /\ r \notin aws.roles
        /\ UNCHANGED aws
        /\ Pass("iam_policies", "notfound", "td_registry")
     \/ /\ r \in aws.roles
        /\ aws' = [aws EXCEPT !.rolePol[r] =
                     [attached |-> {p \in @.attached : ~IsBasicExecutionPolicy(p)},
                      inline |-> {p \in @.inline : ~IsWorkflowInlinePolicy(p)}]]
        /\ Pass("iam_policies", "ok", "td_registry")
     \/ /\ r \in aws.roles
        /\ LET att == {p \in aws.rolePol[r].attached : IsBasicExecutionPolicy(p)}
               inl == {p \in aws.rolePol[r].inline : IsWorkflowInlinePolicy(p)}
           IN  \E a \in SUBSET att, i \in SUBSET inl :
                 /\ i # {} => a = att
                 /\ ~(a = att /\ i = inl) \/ (att = {} /\ inl = {})
                 /\ aws' = [aws EXCEPT !.rolePol[r] =
                              [attached |-> @.attached \ a, inline |-> @.inline \ i]]
        /\ CanFail
        /\ faults' = faults + 1
        /\ pc' = "td_registry"
        /\ obs' = Report(Note("iam_policies", "other"), "iam_error", None)
  /\ UNCHANGED <<registry, kind, loc, hist>>

\* __main__ lines 227-234: remove the registry file when it exists.
RemoveRegistry ==
  /\ Td("td_registry")
  /\ \/ /\ registry' = "absent"
        /\ Pass("td_registry", "ok", "done")
     \/ /\ registry # "absent"
        /\ UNCHANGED registry
        /\ Fault("td_registry", "other", "done")
  /\ UNCHANGED <<aws, kind, loc, hist>>

\* ------------------------------------------------------------------ runs
Next ==
  \/ StartSetup
  \/ labrole_arn
  \/ TableCreate
  \/ TableWait
  \/ TableDescribe
  \/ ProviderTableProgress
  \/ TopicList
  \/ TopicCreate
  \/ SubList
  \/ SubSubscribe
  \/ bucket_exists("ingest")
  \/ create_bucket("ingest")
  \/ bucket_exists("web")
  \/ create_bucket("web")
  \/ disable_bucket_bpa
  \/ apply_web_public_policy
  \/ PutBucketWebsite
  \/ LambdaCreate("A")
  \/ LambdaUpdate("A")
  \/ LambdaGet("A")
  \/ S3Permission
  \/ S3Sleep
  \/ S3Notification
  \/ LambdaCreate("B")
  \/ LambdaUpdate("B")
  \/ LambdaGet("B")
  \/ LambdaCreate("C")
  \/ LambdaUpdate("C")
  \/ LambdaGet("C")
  \/ EsmList
  \/ EsmUpdate
  \/ EsmCreate
  \/ ApiCreate
  \/ ApiIntegration
  \/ ApiRoute("GET /items")
  \/ ApiRoute("GET /items/{store}")
  \/ ApiStage
  \/ ApiPermission
  \/ UploadIndex
  \/ SaveRegistry
  \/ StartTeardown
  \/ ListBuckets
  \/ NextBucket
  \/ BucketClear
  \/ BucketObjects
  \/ BucketVersions
  \/ BucketDelete
  \/ ListFunctions
  \/ NextFunction
  \/ FunctionMappings
  \/ FunctionDelete
  \/ TdTableDescribe
  \/ TdTableDelete
  \/ TdTableWait
  \/ ListTopics
  \/ NextTopic
  \/ delete_sns_topic_globally
  \/ delete_iam_policies
  \/ RemoveRegistry

Spec == Init /\ [][Next]_vars

\* ------------------------------------- the stream trigger, called repeatedly
\* ensure_dynamodb_stream_trigger called again and again (as __main__ line 410
\* does once per run) in an account where the table and the notifier handlers
\* exist and each (stream, handler) pair has no mapping or one mapping, in
\* whatever state an earlier deployment or an operator left it.
MaxCalls == 3
TriggerSuffixes == {SuffixList[1], SuffixList[2]}
TriggerFns == {LambdaName("C", s) : s \in TriggerSuffixes}
MappingSettings == [enabled : BOOLEAN, batch : {1, BatchSize}]
FnIndex(f) == CHOOSE i \in 1..Len(SuffixList) : f = LambdaName("C", SuffixList[i])

InitTrigger ==
  /\ \E pre \in [TriggerFns -> {S \in SUBSET MappingSettings : Cardinality(S) <= 1}] :
       aws = [CleanAws(RoleNames) EXCEPT
                !.table = [status |-> "ACTIVE", gen |-> 1, name |-> TABLE_NAME],
                !.lambdas = [f \in TriggerFns |-> NewLambda],
                !.esms = UNION {{[uuid |-> FnIndex(f), stream |-> 1, fn |-> f,
                                  enabled |-> o.enabled, batch |-> o.batch] : o \in pre[f]}
                                : f \in TriggerFns}]
  /\ registry = "absent"
  /\ kind = "none"
  /\ pc = "idle"
  /\ loc = NoLoc
  /\ hist = <<>>
  /\ faults = 0
  /\ obs = NoObs

\* __main__ line 410: dcc_mapping_uuid = ensure_dynamodb_stream_trigger(stream_arn, lambda_c_name)
CallTrigger ==
  /\ pc \in {"idle", "api_create", "aborted"}
  /\ Len(hist) < MaxCalls
  /\ \E s \in TriggerSuffixes :
       /\ loc' = [SetupLoc(s) EXCEPT !.role_arn = TRUE, !.table_arn = TRUE,
                                     !.stream_arn = aws.table.gen, !.arns = {"C"}]
       /\ hist' = Append(hist, [kind |-> "trigger", suffix |-> s, end |-> "called"])
  /\ kind' = "setup"
  /\ pc' = "esm_list"
  /\ obs' = NoObs
  /\ UNCHANGED <<aws, registry, faults>>

NextTrigger ==
  \/ CallTrigger
  \/ EsmList
  \/ EsmUpdate
  \/ EsmCreate

SpecTrigger == InitTrigger /\ [][NextTrigger]_vars

\* ======================================================= notifier handler
\* notify_low_stock/lambda_handler.py, one invocation on a batch of stream
\* records.  A NewImage attribute is a string as the stream delivers it
\* ({"N": "3"}), here the sequence of its characters; REMOVE records carry no
\* NewImage.  The handler's state: aws.published is what the topic received,
\* loc.event the batch, loc.i the record the for loop is at.
MaxBatch == 2
LOW_STOCK_THRESHOLD == 5
CountStrings == { <<"3">>, <<"4">>, <<"5">>, <<"1", "0">>, <<"-", "1">> }
StoreNames == {"StoreA", "StoreB"}
ItemNames == {"Widget"}
Images == [Item : ItemNames, Store : StoreNames, Count : CountStrings]
StreamRecords ==
  [eventName : {"INSERT", "MODIFY"}, image : {<<im>> : im \in Images}]
  \cup {[eventName |-> "REMOVE", image |-> <<>>]}
Batches == UNION {[1..n -> StreamRecords] : n \in 0..MaxBatch}

DigitValue(c) ==
  CASE c = "0" -> 0 [] c = "1" -> 1 [] c = "2" -> 2 [] c = "3" -> 3 [] c = "4" -> 4
    [] c = "5" -> 5 [] c = "6" -> 6 [] c = "7" -> 7 [] c = "8" -> 8 [] c = "9" -> 9
RECURSIVE ParseDigits(_)
ParseDigits(s) ==
  IF s = <<>> THEN 0 ELSE 10 * ParseDigits(SubSeq(s, 1, Len(s) - 1)) + DigitValue(s[Len(s)])
\* int(item["Count"]["N"])
ParseInt(s) == IF s[1] = "-" THEN 0 - ParseDigits(Tail(s)) ELSE ParseDigits(s)

\* Faulty variant of the threshold test: the threshold itself counts as low.
IsLowStockInclusive(n) == ParseInt(n) <= LOW_STOCK_THRESHOLD
\* line 11: int(item["Count"]["N"]) < 5
IsLowStock(n) == ParseInt(n) < LOW_STOCK_THRESHOLD
\* line 12: the message names the item, the store and the count as delivered.
LowStockMessage(im) == <<"Low stock", im.Item, im.Store, im.Count>>

InitNotify ==
  /\ aws = [topics |-> {SNS_TOPIC_BASE}, published |-> <<>>]
  /\ registry = "absent"
  /\ kind = "notify"
  /\ pc = "record"
  /\ \E e \in Batches : loc = [event |-> e, i |-> 1]
  /\ hist = <<>>
  /\ faults = 0
  /\ obs = NoObs

\* lines 8-13: one pass of the for loop; a failed publish raises out of the handler.
NotifyRecord ==
  /\ kind = "notify" /\ pc = "record"
  /\ loc.i <= Len(loc.event)
  /\ LET r == loc.event[loc.i] IN
     IF r.eventName = "INSERT" /\ IsLowStock(r.image[1].Count)
     THEN \/ /\ aws' = [aws EXCEPT !.published = Append(@, LowStockMessage(r.image[1]))]
             /\ loc' = [loc EXCEPT !.i = @ + 1]
             /\ Pass("publish", "ok", "record")
          \/ /\ UNCHANGED <<aws, loc>>
             /\ Fault("publish", "other", "raised")
     ELSE /\ UNCHANGED aws
          /\ loc' = [loc EXCEPT !.i = @ + 1]
          /\ Pass("skip", "ok", "record")
  /\ UNCHANGED <<registry, kind, hist>>

\* line 14: return {"statusCode": 200}
NotifyReturn ==
  /\ kind = "notify" /\ pc = "record"
  /\ loc.i > Len(loc.event)
  /\ Pass("return", "ok", "done")
  /\ UNCHANGED <<aws, registry, kind, loc, hist>>

NextNotify ==
  \/ NotifyRecord
  \/ NotifyReturn

SpecNotify == InitNotify /\ [][NextNotify]_vars

\* The enabled mappings of the account that read the stream of the table as it
\* is now: each of them hands an inserted row's record to its handler.
StreamConsumers ==
  {m \in aws.esms : /\ m.enabled
                    /\ aws.table.status = "ACTIVE" /\ m.stream = aws.table.gen
                    /\ m.fn \in DOMAIN aws.lambdas}
\* What one insert of the row im into the table gets published: each consumer's
\* handler runs lambda_handler on the INSERT record, towards the topic of its
\* environment.
PublishedOnInsert(im) ==
  {[via |-> m.uuid, by |-> m.fn, topic |-> aws.lambdas[m.fn].topic,
    msg |-> LowStockMessage(im)] : m \in {c \in StreamConsumers : IsLowStock(im.Count)}}

\* ========================================================== query handler
\* get_inventory_api/lambda_handler.py, one invocation.  aws.rows is the table:
\* at most one row per key (Store, Item), the Count a Decimal (unscaled digits
\* and a scale, 25 with scale 1 being 2.5).  An optional value (a dictionary
\* entry that may be missing, Python's None) is a set with no or one element.
MaxRows == 3
\* The rows one scan or query call returns: the provider ends a page at 1 MB
\* of data and hands back LastEvaluatedKey for the rest.
PageLimit == 2
QueryStores == {"StoreA", "StoreB"}
QueryItems == {"Widget", "Gadget"}
Decimals == { [u |-> 3, scale |-> 0], [u |-> 10, scale |-> 0],
              [u |-> 25, scale |-> 1], [u |-> 30, scale |-> 1] }
TableRows == [Store : QueryStores, Item : QueryItems, Count : Decimals]
Tables ==
  {T \in SUBSET TableRows :
     /\ Cardinality(T) <= MaxRows
     /\ \A r1, r2 \in T : (r1.Store = r2.Store /\ r1.Item = r2.Item) => r1 = r2}
QueryEvents ==
  { [path |-> {}], [path |-> {[store |-> {}]}] }
  \cup { [path |-> {[store |-> {s}]}] : s \in QueryStores \cup {""} }

Pow10(n) == IF n = 0 THEN 1 ELSE 10
\* convert_decimal on a Decimal: int(obj) if obj % 1 == 0 else float(obj)
convert_decimal(d) ==
  IF d.u % Pow10(d.scale) = 0
  THEN [type |-> "int", u |-> d.u \div Pow10(d.scale), scale |-> 0]
  ELSE [type |-> "float", u |-> d.u, scale |-> d.scale]
\* convert_decimal on the list of items, then json.dumps
clean_items(items) ==
  {[Store |-> r.Store, Item |-> r.Item, Count |-> convert_decimal(r.Count)] : r \in items}
\* line 23: event.get("pathParameters", {}).get("store")
StoreParameter(event) ==
  IF event.path = {} THEN {} ELSE (CHOOSE d \in event.path : TRUE).store
\* line 25: if store
Truthy(v) == v # {} /\ v # {""}
\* One page of a scan or query over the rows that match.
Pages(matching) ==
  IF Cardinality(matching) <= PageLimit THEN {matching}
  ELSE {P \in SUBSET matching : Cardinality(P) = PageLimit}

InitQuery ==
  /\ \E T \in Tables : aws = [rows |-> T]
  /\ registry = "absent"
  /\ kind = "query"
  /\ pc = "read"
  /\ \E e \in QueryEvents : loc = [event |-> e, items |-> {}, response |-> {}]
  /\ hist = <<>>
  /\ faults = 0
  /\ obs = NoObs

\* lines 23-32: table.query on the partition key when store is given, else
\* table.scan; response["Items"] of that one call is kept.
QueryRead ==
  /\ kind = "query" /\ pc = "read"
  /\ LET store == StoreParameter(loc.event)
         matching == IF Truthy(store) THEN {r \in aws.rows : r.Store \in store}
                     ELSE aws.rows
     IN  \/ /\ \E page \in Pages(matching) : loc' = [loc EXCEPT !.items = page]
            /\ Pass(IF Truthy(store) THEN "query" ELSE "scan", "ok", "respond")
         \/ /\ UNCHANGED loc
            /\ Fault(IF Truthy(store) THEN "query" ELSE "scan", "other", "raised")
  /\ UNCHANGED <<aws, registry, kind, hist>>

\* lines 34-41: the converted items as the body of a 200 response.
QueryRespond ==
  /\ kind = "query" /\ pc = "respond"
  /\ loc' = [loc EXCEPT !.response = {[statusCode |-> 200, body |-> clean_items(loc.items)]}]
  /\ Pass("respond", "ok", "done")
  /\ UNCHANGED <<aws, registry, kind, hist>>

NextQuery ==
  \/ QueryRead
  \/ QueryRespond

SpecQuery == InitQuery /\ [][NextQuery]_vars

\* ========================================================= ingest handler
\* load_inventory/lambda_handler.py, one invocation on a batch of
\* object-created records.  A file is its header line and its data lines, each
\* a sequence of fields as csv.DictReader splits them; a count field is the
\* sequence of its characters.  aws.rows is the table, the Count a number;
\* loc.i is the record the outer loop is at, loc.j the data line the inner loop
\* is at (0: the object is not read yet), loc.before the table as the
\* invocation found it.
MaxIngestRows == 2
CsvHeaders == { <<"store", "item", "count">>, <<"item", "store", "count">>,
                <<"Store", "Item", "Count">> }
CsvCounts == { <<"3">>, <<"1", "0">>, <<"x">> }
CsvLines ==
  {<<a, b, c>> : a \in {"StoreA", "StoreB"}, b \in {"Widget"}, c \in CsvCounts}
CsvFiles(k) == [header : CsvHeaders, lines : UNION {[1..n -> CsvLines] : n \in 0..k}]
\* The batches of n files with at most k data lines between them.
RECURSIVE BatchesOf(_, _)
BatchesOf(n, k) ==
  IF n = 0 THEN {<<>>}
  ELSE UNION {{<<f>> \o rest : rest \in BatchesOf(n - 1, k - Len(f.lines))} : f \in CsvFiles(k)}
\* An invocation carries no record's file, one, or two.
IngestBatches == UNION {BatchesOf(n, MaxIngestRows) : n \in {0, 1, 2}}
OldRows == {[Store |-> "StoreA", Item |-> "Widget", Count |-> 7]}

\* csv.DictReader: the field of a line under a column name; no such column is
\* a KeyError (here: no element).
Field(file, line, name) ==
  {line[k] : k \in {k \in 1..Len(file.header) : file.header[k] = name}}
Digits == {"0", "1", "2", "3", "4", "5", "6", "7", "8", "9"}
\* int(text) succeeds on an optional sign followed by digits.
IsIntLiteral(s) ==
  LET body == IF s # <<>> /\ s[1] = "-" THEN Tail(s) ELSE s
  IN  body # <<>> /\ \A k \in 1..Len(body) : body[k] \in Digits
\* lines 26-30: the item put_item receives, if the row gives one.
ItemOfRow(file, line) ==
  LET st == Field(file, line, "store")
      it == Field(file, line, "item")
      ct == Field(file, line, "count")
  IN  IF st = {} \/ it = {} \/ ct = {} THEN {}
      ELSE {[Store |-> s, Item |-> i, Count |-> ParseInt(c)] :
              s \in st, i \in it, c \in {x \in ct : IsIntLiteral(x)}}
\* put_item: the row with the item's key is replaced.
PutItem(rows, item) ==
  {r \in rows : ~(r.Store = item.Store /\ r.Item = item.Item)} \cup {item}

InitIngest ==
  /\ aws \in [rows : SUBSET OldRows]
  /\ registry = "absent"
  /\ kind = "ingest"
  /\ pc = "record"
  /\ \E e \in IngestBatches : loc = [event |-> e, i |-> 1, j |-> 0, before |-> aws.rows]
  /\ hist = <<>>
  /\ faults = 0
  /\ obs = NoObs

\* lines 19-21: get_object, decode, DictReader; any exception is raised again.
IngestOpen ==
  /\ kind = "ingest" /\ pc = "record"
  /\ loc.i <= Len(loc.event) /\ loc.j = 0
  /\ \/ /\ loc' = [loc EXCEPT !.j = 1]
        /\ Pass("get_object", "ok", "record")
     \/ /\ UNCHANGED loc
        /\ Fault("get_object", "other", "raised")
  /\ UNCHANGED <<aws, registry, kind, hist>>

\* Faulty variant of the inner loop: a row that does not parse is skipped.
IngestRowSkipsBadRows ==
  /\ kind = "ingest" /\ pc = "record"
  /\ loc.i <= Len(loc.event) /\ loc.j >= 1
  /\ LET file == loc.event[loc.i] IN
     IF loc.j > Len(file.lines)
     THEN /\ loc' = [loc EXCEPT !.i = @ + 1, !.j = 0]
          /\ UNCHANGED aws
          /\ Pass("file_done", "ok", "record")
     ELSE LET item == ItemOfRow(file, file.lines[loc.j]) IN
          /\ aws' = IF item = {} THEN aws
                    ELSE [aws EXCEPT !.rows = PutItem(@, CHOOSE x \in item : TRUE)]
          /\ loc' = [loc EXCEPT !.j = @ + 1]
          /\ Pass("put_item", "ok", "record")
  /\ UNCHANGED <<registry, kind, hist>>

\* lines 23-31: one pass of the inner loop (parse the row, put_item), or its
\* end; an exception of either is raised out of the handler.
IngestRow ==
  /\ kind = "ingest" /\ pc = "record"
  /\ loc.i <= Len(loc.event) /\ loc.j >= 1
  /\ LET file == loc.event[loc.i] IN
     IF loc.j > Len(file.lines)
     THEN /\ loc' = [loc EXCEPT !.i = @ + 1, !.j = 0]
          /\ UNCHANGED aws
          /\ Pass("file_done", "ok", "record")
     ELSE LET item == ItemOfRow(file, file.lines[loc.j]) IN
          \/ /\ item = {}
             /\ UNCHANGED <<aws, loc>>
             /\ Pass("parse", "invalid", "raised")
          \/ /\ item # {}
             /\ aws' = [aws EXCEPT !.rows = PutItem(@, CHOOSE x \in item : TRUE)]
             /\ loc' = [loc EXCEPT !.j = @ + 1]
             /\ Pass("put_item", "ok", "record")
          \/ /\ item # {}
             /\ UNCHANGED <<aws, loc>>
             /\ Fault("put_item", "other", "raised")
  /\ UNCHANGED <<registry, kind, hist>>

\* line 36: return {"statusCode": 200, ...}
IngestReturn ==
  /\ kind = "ingest" /\ pc = "record"
  /\ loc.i > Len(loc.event)
  /\ Pass("return", "ok", "done")
  /\ UNCHANGED <<aws, registry, kind, loc, hist>>

NextIngest ==
  \/ IngestOpen
  \/ IngestRow
  \/ IngestReturn

SpecIngest == InitIngest /\ [][NextIngest]_vars

\* ===================================================== concurrent provisioning
\* Two processes run setup.py __main__ on one account at the same time, each
\* with a suffix of its own.  pc, loc and obs are those of the process whose
\* call comes next; hist holds, as its one element, pc, loc and obs of the
\* other process.  The switch may come between any two provider calls.  No
\* call fails for a reason of its own (the budget of injected failures is
\* spent): what a call answers is decided by the account as the two
\* processes have left it.
InitRace ==
  /\ \E shared \in BOOLEAN :
       aws = IF shared
             THEN [CleanAws(RoleNames) EXCEPT
                     !.table = [status |-> "ACTIVE", gen |-> 1, name |-> TABLE_NAME],
                     !.topics = {SNS_TOPIC_BASE}]
             ELSE CleanAws(RoleNames)
  /\ registry = "absent"
  /\ kind = "setup"
  /\ pc = "role"
  /\ loc = SetupLoc(SuffixList[1])
  /\ hist = << [pc |-> "role", loc |-> SetupLoc(SuffixList[2]), obs |-> NoObs] >>
  /\ faults = MaxFaults
  /\ obs = NoObs

\* The other process makes the next call.
RaceSwitch ==
  /\ kind = "setup"
  /\ hist[1].pc \notin {"done", "aborted"}
  /\ pc' = hist[1].pc
  /\ loc' = hist[1].loc
  /\ obs' = hist[1].obs
  /\ hist' = << [pc |-> pc, loc |-> loc, obs |-> obs] >>
  /\ UNCHANGED <<aws, registry, kind, faults>>

\* The steps of __main__; with a fresh suffix per process no handler and no
\* mapping of a process exists before it creates it, so the update branches of
\* ensure_lambda and ensure_dynamodb_stream_trigger are never entered.
NextRace ==
  \/ RaceSwitch
  \/ labrole_arn
  \/ TableCreate
  \/ TableWait
  \/ TableDescribe
  \/ ProviderTableProgress
  \/ TopicList
  \/ TopicCreate
  \/ SubList
  \/ SubSubscribe
  \/ bucket_exists("ingest")
  \/ create_bucket("ingest")
  \/ bucket_exists("web")
  \/ create_bucket("web")
  \/ disable_bucket_bpa
  \/ apply_web_public_policy
  \/ PutBucketWebsite
  \/ LambdaCreate("A")
  \/ LambdaGet("A")
  \/ S3Permission
  \/ S3Sleep
  \/ S3Notification
  \/ LambdaCreate("B")
  \/ LambdaGet("B")
  \/ LambdaCreate("C")
  \/ LambdaGet("C")
  \/ EsmList
  \/ EsmCreate
  \/ ApiCreate
  \/ ApiIntegration
  \/ ApiRoute("GET /items")
  \/ ApiRoute("GET /items/{store}")
  \/ ApiStage
  \/ ApiPermission
  \/ UploadIndex
  \/ SaveRegistry

SpecRace == InitRace /\ [][NextRace]_vars

\* ================================================================ claims
Entries(b) == aws.buckets[b].objects + aws.buckets[b].versions
LastRun == hist[Len(hist)]
SetupRunning == kind = "setup" /\ hist' = hist
TeardownRunning == kind = "teardown" /\ hist' = hist

\* C1: from an account with none of the workflow's resources, one complete
\* provisioning run followed by one complete teardown run, every call
\* succeeding, leaves no ingest or web bucket, no handler, no topic, no table
\* and no registry file.
RoundTripLeavesNothing ==
  ( /\ Len(hist) = 2
    /\ hist[1].end = "clean"
    /\ hist[2].kind = "setup" /\ hist[2].end = "done"
    /\ kind = "teardown" /\ pc = "done"
    /\ faults = 0 )
  => /\ \A b \in DOMAIN aws.buckets :
          /\ ~StartsWith(b, <<INGEST_BUCKET_BASE, "-">>)
          /\ ~StartsWith(b, <<WEB_BUCKET_BASE, "-">>)
     /\ \A f \in DOMAIN aws.lambdas, h \in Handlers : ~StartsWith(f, <<LambdaBase(h), "-">>)
     /\ SNS_TOPIC_BASE \notin aws.topics
     /\ aws.table.status = "NONE"
     /\ registry = "absent"

\* C2: after two complete provisioning runs in sequence, with no teardown run
\* before or between them, the table Inventory exists once, the topic NoStock
\* exists once, no (stream, handler) pair has two event-source mappings, and
\* the second run created neither the table nor the topic.
OnlySetupsSoFar == \A i \in 2..Len(hist) : hist[i].kind = "setup"
TwoCompleteSetups ==
  /\ OnlySetupsSoFar
  /\ LastRun.kind = "setup" /\ LastRun.end = "done"
  /\ kind = "setup" /\ pc = "done"
IdempotentProvisioning ==
  TwoCompleteSetups
  => /\ aws.table.status \in {"CREATING", "ACTIVE"}
     /\ Cardinality({n \in aws.topics : n = <<"NoStock">>}) = 1
     /\ \A m1, m2 \in aws.esms :
          (m1.stream = m2.stream /\ m1.fn = m2.fn) => m1 = m2
     /\ obs.created \cap {"table", "topic"} = {}
\* Two complete runs, the second with a suffix of its own.
IdempotentProvisioningWitness ==
  /\ TwoCompleteSetups
  /\ LastRun.suffix # loc.suffix
  /\ Cardinality(aws.esms) = 2

\* C3: a trigger wiring step is at hand only when the ensure step of its
\* target handler has returned the handler's identifier and the handler
\* exists; the stream mapping also only when the stream identifier is known.
S3WiringSteps == {"s3_permission", "s3_sleep", "s3_notification"}
StreamWiringSteps == {"esm_list", "esm_update", "esm_create"}
GatewayWiringSteps ==
  {"api_integration", "api_route_items", "api_route_store", "api_stage", "api_permission"}
HandlerKnown(h) == h \in loc.arns /\ LambdaName(h, loc.suffix) \in DOMAIN aws.lambdas
WiringAfterHandler ==
  kind = "setup"
  => /\ pc \in S3WiringSteps => HandlerKnown("A")
     /\ pc \in StreamWiringSteps => HandlerKnown("C") /\ loc.stream_arn > 0 /\ loc.table_arn
     /\ pc \in GatewayWiringSteps => HandlerKnown("B")
\* The last wiring step is at hand, the other two triggers are installed.
WiringAfterHandlerWitness ==
  /\ kind = "setup" /\ pc = "api_permission"
  /\ aws.buckets[IngestBucket(loc.suffix)].notif = LambdaName("A", loc.suffix)
  /\ \E m \in aws.esms : m.fn = LambdaName("C", loc.suffix) /\ m.stream = loc.stream_arn

\* C4: when the execution role does not exist the provisioning run ends at the
\* role lookup, and neither that step nor the rest of the run changes the
\* account or the registry.
SameAccountButTable(a, b) == [a EXCEPT !.table = b.table] = b
RoleMissingAborts ==
  [][ /\ ( SetupRunning /\ pc = "role" /\ pc' # pc /\ SETUP_ROLE_NAME \notin aws.roles )
         => ( pc' = "aborted" /\ aws' = aws /\ registry' = registry )
      /\ ( SetupRunning /\ pc = "aborted" /\ obs.lastStep = "role" )
         => ( pc' = "aborted" /\ SameAccountButTable(aws, aws') /\ registry' = registry
              /\ obs'.created = {} ) ]_vars
RoleMissingAbortsWitness ==
  /\ kind = "setup" /\ pc = "aborted"
  /\ obs.lastStep = "role" /\ obs.lastErr = "notfound"
  /\ SETUP_ROLE_NAME \notin aws.roles

\* C5: a teardown run is never stopped by a failure: it reaches its end, and at
\* its end the six parts (buckets, handlers, table, topics, role policies,
\* registry file) have all been attempted.
TeardownForwardProgress ==
  kind = "teardown"
  => /\ pc # "aborted"
     /\ pc = "done" =>
          obs.attempted = {"buckets", "handlers", "table", "topics", "policies", "registry"}

\* C6: delete_bucket is called after the object pass and the version pass, in
\* that order, and with no entry left unless a pass left some behind; the
\* bucket goes away only when it holds no entry, and a call made while an
\* entry remains leaves the bucket in place and prints an error for it.
BucketDeleteAfterEmptying ==
  [][ /\ ( TeardownRunning /\ pc' = "bk_delete" /\ pc # pc' ) => pc = "bk_versions"
      /\ ( TeardownRunning /\ pc' = "bk_versions" /\ pc # pc' ) => pc = "bk_objects"
      /\ ( TeardownRunning /\ pc = "bk_delete" /\ ~loc.rmErr ) => Entries(loc.cur) = 0
      /\ ( TeardownRunning /\ pc = "bk_delete" /\ pc' # pc )
         => /\ loc.cur \notin DOMAIN aws'.buckets => Entries(loc.cur) = 0
            /\ Entries(loc.cur) > 0
               => /\ loc.cur \in DOMAIN aws'.buckets
                  /\ aws'.buckets[loc.cur] = aws.buckets[loc.cur]
                  /\ [msg |-> "bucket_error", name |-> loc.cur] \in obs'.reported
      /\ \A b \in DOMAIN aws.buckets :
           b \notin DOMAIN aws'.buckets => ( pc = "bk_delete" /\ b = loc.cur /\ Entries(b) = 0 )
    ]_vars
\* The delete call was made while entries remained: the bucket is still there.
BucketDeleteAfterEmptyingWitness ==
  /\ kind = "teardown" /\ pc = "bk_next"
  /\ obs.lastStep = "bk_delete" /\ obs.lastErr = "notempty"
  /\ loc.cur \in DOMAIN aws.buckets
  /\ Entries(loc.cur) > 0
  /\ [msg |-> "bucket_error", name |-> loc.cur] \in obs.reported

\* C7: no step deletes a role or adds a policy; an attached policy goes away
\* only if its name contains AWSLambdaBasicExecutionRole, an inline policy
\* only if its name starts with PolicyA-, PolicyB- or PolicyC-, and only in
\* the teardown's policy step.
RolePoliciesFrame ==
  [][ /\ aws'.roles = aws.roles
      /\ \A r \in aws.roles :
           /\ aws'.rolePol[r].attached \subseteq aws.rolePol[r].attached
           /\ aws'.rolePol[r].inline \subseteq aws.rolePol[r].inline
           /\ \A p \in aws.rolePol[r].attached \ aws'.rolePol[r].attached :
                \E i \in 1..Len(p) : p[i] = "AWSLambdaBasicExecutionRole"
           /\ \A p \in aws.rolePol[r].inline \ aws'.rolePol[r].inline :
                /\ Len(p) >= 2
                /\ p[1] \in {"PolicyA", "PolicyB", "PolicyC"}
                /\ p[2] = "-"
           /\ aws'.rolePol[r] # aws.rolePol[r] => ( kind = "teardown" /\ pc = "iam_policies" )
    ]_vars
\* The policy step ran on a role: its matching policies are gone, the others stay.
RolePoliciesFrameWitness ==
  /\ kind = "teardown" /\ obs.lastStep = "iam_policies" /\ obs.lastErr = "ok"
  /\ \E r \in aws.roles :
       /\ aws.rolePol[r].attached = { <<"AmazonS3ReadOnlyAccess">> }
       /\ aws.rolePol[r].inline = { <<"PolicyABC">>, <<"LabPolicy">> }

\* C8 (as claimed): in a provisioning run every provider error that is not an
\* already-exists answer ends the run, at every step.
ProviderCallFailed == obs'.lastErr \in {"other", "waiter"} /\ faults' = faults + 1
EveryErrorAborts ==
  [][ ( SetupRunning /\ pc # "save_registry" /\ ProviderCallFailed ) => pc' = "aborted" ]_vars

\* C8 (amended): every such error ends the run, and nothing of the run follows,
\* except an error of the bucket existence probe (read as "no such bucket": the
\* create call follows), of disabling the web bucket's public-access block, or of
\* listing or creating the email subscription: after these the run goes on.
ToleratedSteps == {"head_ingest", "head_web", "web_bpa", "sub_list", "sub_subscribe"}
ErrorsAbortExceptTolerated ==
  [][ /\ ( SetupRunning /\ pc \notin ToleratedSteps \cup {"save_registry"}
           /\ ( ProviderCallFailed \/ ( pc' # pc /\ obs'.lastErr = "notfound" ) ) )
         => ( pc' = "aborted" /\ aws' = aws /\ registry' = registry )
      /\ ( SetupRunning /\ pc \in ToleratedSteps /\ ProviderCallFailed )
         => pc' \notin {"aborted", "done"}
      /\ ( SetupRunning /\ pc = "aborted" )
         => ( pc' = "aborted" /\ SameAccountButTable(aws, aws') /\ registry' = registry )
    ]_vars
\* A run ended by the error of a call that is not tolerated.
ErrorsAbortExceptToleratedWitness ==
  /\ kind = "setup" /\ pc = "aborted"
  /\ obs.lastStep = "web_policy" /\ obs.lastErr = "other"

\* C9: an already-exists answer of a create call never ends a provisioning run.
AlreadyExistsIsSuccess ==
  ~( kind = "setup" /\ pc = "aborted" /\ obs.lastErr = "exists" )

\* C10: ensure_dynamodb_table returns the identifiers only when the table is
\* active.
TableActiveOnReturn ==
  ( kind = "setup" /\ obs.lastStep = "table_describe" /\ obs.lastErr = "ok" )
  => aws.table.status = "ACTIVE"

\* C11: whatever calls of ensure_dynamodb_stream_trigger were made, no (stream,
\* handler) pair has two mappings; a call whose lookup finds a mapping goes to
\* the update and not to the create; the update leaves the set of mapping ids
\* as it was, sets enabled and the batch size on the pair's mapping, leaves the
\* other mappings alone, and returns the id of the pair's mapping.
OneMappingPerPair ==
  \A m1, m2 \in aws.esms : (m1.stream = m2.stream /\ m1.fn = m2.fn) => m1 = m2
CalledPair == MappingsOf(loc.stream_arn, LambdaName("C", loc.suffix))
StreamTriggerUpsert ==
  [][ /\ OneMappingPerPair'
      /\ (At("esm_list") /\ CalledPair # {}) => pc' \in {"esm_update", "aborted"}
      /\ (At("esm_update") /\ pc' = "api_create") =>
            /\ {m.uuid : m \in aws'.esms} = {m.uuid : m \in aws.esms}
            /\ obs'.created = obs.created
            /\ \E m \in CalledPair :
                 /\ loc'.uuid = m.uuid
                 /\ [m EXCEPT !.enabled = TRUE, !.batch = BatchSize] \in aws'.esms
            /\ aws.esms \ CalledPair \subseteq aws'.esms
    ]_vars
StreamTriggerUpsertWitness ==
  /\ kind = "setup" /\ pc = "api_create" /\ obs.lastStep = "esm_update"
  /\ Len(hist) = MaxCalls
  /\ hist[1].suffix = hist[MaxCalls].suffix
  /\ Cardinality(aws.esms) = 2
  /\ \A m \in aws.esms : m.fn = LambdaName("C", loc.suffix) => m.enabled /\ m.batch = BatchSize
  /\ \E m \in aws.esms : ~m.enabled

\* C12: while nothing that teardown's patterns match exists (no bucket, handler
\* or topic with a matching name, no table) and the run has found nothing to
\* delete (it is at a listing, a loop head or a describe, with nothing left of
\* the last listing), a teardown step deletes nothing,
\* leaves the policies of every role that has no matching policy as they are,
\* never stops the run, and the run ends with all six parts attempted; and a
\* teardown run that ended without a failure leaves such an account, so that a
\* second run changes nothing.
NothingToTearDown ==
  /\ \A b \in DOMAIN aws.buckets : \A i \in 1..Len(BUCKET_PREFIXES) :
       ~StartsWith(b, BUCKET_PREFIXES[i])
  /\ \A f \in DOMAIN aws.lambdas : \A i \in 1..Len(LAMBDA_PREFIXES) :
       ~StartsWith(f, LAMBDA_PREFIXES[i])
  /\ aws.table.status = "NONE"
  /\ \A n \in aws.topics : ~StartsWith(n, SNS_TOPIC_PREFIX)
NoMatchingPolicy(r) ==
  /\ \A p \in aws.rolePol[r].attached : ~IsBasicExecutionPolicy(p)
  /\ \A p \in aws.rolePol[r].inline : ~IsWorkflowInlinePolicy(p)
FoundNothingPositions ==
  {"td_buckets", "bk_next", "td_functions", "fn_next", "tt_describe", "tp_list",
   "tp_next", "iam_policies", "td_registry"}
FoundNothing == pc \in FoundNothingPositions /\ loc.todo = {}
SixParts == {"buckets", "handlers", "table", "topics", "policies", "registry"}
TeardownIdempotentOnAbsence ==
  [][ /\ (TeardownRunning /\ NothingToTearDown /\ FoundNothing) =>
            /\ [aws' EXCEPT !.rolePol = aws.rolePol] = aws
            /\ \A r \in aws.roles : NoMatchingPolicy(r) => aws'.rolePol[r] = aws.rolePol[r]
            /\ pc' # "aborted"
            /\ pc' = "done" => obs'.attempted = SixParts
      /\ (kind' = "teardown" /\ pc' = "done" /\ faults' = 0) => NothingToTearDown'
    ]_vars
TeardownIdempotentOnAbsenceWitness ==
  /\ LastRun.kind = "teardown" /\ LastRun.end = "done"
  /\ hist[1].end = "legacy"
  /\ kind = "teardown" /\ pc = "done" /\ obs.attempted = SixParts
  /\ NothingToTearDown
  /\ \E r \in aws.roles : NoMatchingPolicy(r)

\* The names a step adds to the account.
NewNames ==
  (DOMAIN aws'.buckets \ DOMAIN aws.buckets)
  \cup (DOMAIN aws'.lambdas \ DOMAIN aws.lambdas)
  \cup (aws'.topics \ aws.topics)
  \cup (IF aws'.table.gen > aws.table.gen THEN {aws'.table.name} ELSE {})
  \cup {aws'.apis[i].name : i \in (Len(aws.apis) + 1)..Len(aws'.apis)}
CarriesSuffix(n, s) == EndsWith(n, <<"-", s>>)

MatchesAny(n, prefixes) == \E i \in 1..Len(prefixes) : StartsWith(n, prefixes[i])
ApiTarget(api) == LambdaName("B", api.name[Len(api.name)])
DependentsGoFirst ==
  (kind = "teardown" /\ faults = 0) =>
    /\ \A m \in aws.esms :
         m.fn \in DOMAIN aws.lambdas /\ aws.table.status # "NONE" /\ aws.table.gen = m.stream
    /\ \A b \in DOMAIN aws.buckets :
         aws.buckets[b].notif # None => aws.buckets[b].notif \in DOMAIN aws.lambdas
    /\ \A f \in DOMAIN aws.lambdas :
         aws.lambdas[f].topic # None => aws.lambdas[f].topic \in {TopicArn(n) : n \in aws.topics}
    /\ \A i \in 1..Len(aws.apis) :
         aws.apis[i].integration => ApiTarget(aws.apis[i]) \in DOMAIN aws.lambdas
    /\ (LastRun.kind = "setup" /\ LastRun.end = "done" /\ pc # "done") => registry # "absent"

\* What a provisioning run holds when all its resource steps are behind it.
AllStepsBehind ==
  /\ loc.role_arn /\ loc.table_arn /\ loc.topic_arn # None
  /\ loc.arns = Handlers /\ loc.uuid > 0 /\ loc.api_id > 0 /\ loc.integration
  /\ aws.apis[loc.api_id].stage
  /\ "apigw_invoke" \in aws.lambdas[LambdaName("B", loc.suffix)].perms

\* C16 (as claimed): the registry is written only in the save step, which a
\* run takes once, and only when no resource step of the run has failed; the
\* other steps, an abort among them, leave the registry alone; a failed write
\* changes no resource and the run still ends as complete.
RegistryAfterAllSucceeded ==
  [][ SetupRunning =>
        /\ pc # "save_registry" => registry' = registry
        /\ (pc = "save_registry" /\ pc' # pc) =>
              /\ obs.failed = {}
              /\ AllStepsBehind
              /\ pc' = "done" /\ aws' = aws
              /\ registry' = IF obs'.lastErr = "ok" THEN loc.suffix ELSE registry
    ]_vars

\* C16 (amended): the same, except that the steps behind the save step either
\* succeeded or failed with an error the run tolerates (the bucket probe, the
\* web bucket's public-access block, the email subscription).
RegistryAfterAllSteps ==
  [][ SetupRunning =>
        /\ pc # "save_registry" => registry' = registry
        /\ (pc = "save_registry" /\ pc' # pc) =>
              /\ obs.failed \subseteq ToleratedSteps
              /\ AllStepsBehind
              /\ pc' = "done" /\ aws' = aws
              /\ registry' = IF obs'.lastErr = "ok" THEN loc.suffix ELSE registry
    ]_vars
RegistryAfterAllStepsWitness ==
  /\ kind = "setup" /\ pc = "done"
  /\ obs.lastStep = "save_registry" /\ obs.lastErr = "other"
  /\ registry = "absent"
  /\ AllStepsBehind

\* C17: at every point of an invocation of the notifier the messages published
\* are, in batch order, one for each record handled so far that is an INSERT
\* with a count below 5 (the counts "3", "4" and "-1"; "5" and "10" are not),
\* each naming the record's item, store and count; so a returned invocation
\* has published exactly one message per such record of the batch and none
\* for a MODIFY or REMOVE record.
CountsBelowFive == { <<"3">>, <<"4">>, <<"-", "1">> }
Qualifies(r) == r.eventName = "INSERT" /\ r.image[1].Count \in CountsBelowFive
RECURSIVE ExpectedMessages(_)
ExpectedMessages(rs) ==
  IF rs = <<>> THEN <<>>
  ELSE LET r == rs[Len(rs)]
           before == ExpectedMessages(SubSeq(rs, 1, Len(rs) - 1))
       IN  IF Qualifies(r)
           THEN Append(before, <<"Low stock", r.image[1].Item, r.image[1].Store, r.image[1].Count>>)
           ELSE before
OneMessagePerLowInsert ==
  /\ aws.published = ExpectedMessages(SubSeq(loc.event, 1, loc.i - 1))
  /\ pc = "done" =>
        /\ loc.i = Len(loc.event) + 1
        /\ Len(aws.published) = Cardinality({k \in 1..Len(loc.event) : Qualifies(loc.event[k])})
OneMessagePerLowInsertWitness ==
  /\ pc = "done" /\ Len(loc.event) = MaxBatch
  /\ Len(aws.published) = 1
  /\ \E k \in 1..Len(loc.event) :
       loc.event[k].eventName = "INSERT" /\ loc.event[k].image[1].Count = <<"5">>

\* C18: when the query handler has returned, the status is 200 and the body
\* holds, for a store parameter s, one row for each table row whose Store is s
\* and no other, and with no store parameter (none, or the empty string) one
\* row for each row of the table, each with the row's key and a count of the
\* same value.
SameValue(d, j) == d.u * Pow10(j.scale) = j.u * Pow10(d.scale)
Wanted ==
  LET store == StoreParameter(loc.event)
  IN  IF store \in {{s} : s \in QueryStores}
      THEN {r \in aws.rows : {r.Store} = store}
      ELSE aws.rows
QueryReturnsMatchingRows ==
  (kind = "query" /\ pc = "done") =>
    \E resp \in loc.response :
      /\ resp.statusCode = 200
      /\ \A r \in Wanted : \E b \in resp.body :
           b.Store = r.Store /\ b.Item = r.Item /\ SameValue(r.Count, b.Count)
      /\ \A b \in resp.body : \E r \in Wanted :
           b.Store = r.Store /\ b.Item = r.Item /\ SameValue(r.Count, b.Count)


\* ---------------------------------------------------------------- C19
\* The data rows of the batch by position (record, line), in the order the
\* handler meets them.
RowPositions ==
  {p \in (1..Len(loc.event)) \X (1..MaxIngestRows) : p[2] <= Len(loc.event[p[1]].lines)}
Earlier(p, q) == p[1] < q[1] \/ (p[1] = q[1] /\ p[2] < q[2])
RowsBehind == {p \in RowPositions : Earlier(p, <<loc.i, loc.j>>)}
ColumnOf(i, name) ==
  {k \in 1..Len(loc.event[i].header) : loc.event[i].header[k] = name}
CountsThatParse == {<<<<"3">>, 3>>, <<<<"1", "0">>, 10>>}
RowParses(p) ==
  /\ \A name \in {"store", "item", "count"} : ColumnOf(p[1], name) # {}
  /\ \E c \in CountsThatParse :
        \A k \in ColumnOf(p[1], "count") : loc.event[p[1]].lines[p[2]][k] = c[1]
RowValue(p) ==
  LET line == loc.event[p[1]].lines[p[2]]
      at(name) == line[CHOOSE k \in ColumnOf(p[1], name) : TRUE]
  IN  [Store |-> at("store"), Item |-> at("item"),
       Count |-> (CHOOSE c \in CountsThatParse : c[1] = at("count"))[2]]
SameKey(r, s) == r.Store = s.Store /\ r.Item = s.Item
LastWrites ==
  {RowValue(p) : p \in {p \in RowsBehind :
      ~\E q \in RowsBehind : Earlier(p, q) /\ SameKey(RowValue(p), RowValue(q))}}
\* C19: every row the ingest handler has passed parsed, and the table holds
\* for each of them a row with its key whose numeric Count is that of the
\* last row with the key (the rest of the table is what was there before
\* under keys no row used); the handler returns only when it has passed every row
\* of every record, and when it raised on a row that does not parse it stands
\* at that row, nothing after it processed and the earlier rows still there.
IngestWritesRows ==
  /\ \A p \in RowsBehind : RowParses(p)
  /\ LastWrites \subseteq aws.rows
  /\ aws.rows \ LastWrites =
        {r \in loc.before : ~\E p \in RowsBehind : SameKey(RowValue(p), r)}
  /\ pc = "done" => RowsBehind = RowPositions
  /\ (pc = "raised" /\ faults = 0) =>
        <<loc.i, loc.j>> \in RowPositions /\ ~RowParses(<<loc.i, loc.j>>)
\* Witness: the handler raised on a row of the second record, the row of the
\* first record written over the one the table had.
IngestWritesRowsWitness ==
  /\ pc = "raised" /\ faults = 0 /\ loc.i = 2
  /\ loc.before = OldRows
  /\ aws.rows = {[Store |-> "StoreA", Item |-> "Widget", Count |-> 10]}
\* ---------------------------------------------------------------- C20
HandlerPermitsBucket(s) ==
  /\ LambdaName("A", s) \in DOMAIN aws.lambdas
  /\ "s3" \in aws.lambdas[LambdaName("A", s)].perms
\* C20: in the storage-trigger wiring of a provisioning run, the step that
\* installs the bucket notification starts from a state where the ingest
\* handler carries the bucket's invoke permission, and is entered only from
\* the wait step or from a permission call answered "already exists"; a
\* permission call that grants goes to the wait step and the wait step to the
\* install, neither touching the buckets; a permission call that fails in any
\* other way aborts the run and changes nothing in the account.
StorageTriggerOrdering ==
  [][kind = "setup" =>
       /\ (pc = "s3_notification" /\ aws'.buckets # aws.buckets) =>
             /\ HandlerPermitsBucket(loc.suffix)
             /\ aws'.buckets[IngestBucket(loc.suffix)].notif = LambdaName("A", loc.suffix)
       /\ (pc # "s3_notification" /\ pc' = "s3_notification") =>
             /\ HandlerPermitsBucket(loc.suffix)'
             /\ \/ pc = "s3_sleep"
                \/ pc = "s3_permission" /\ obs'.lastErr = "exists" /\ aws' = aws
       /\ (pc = "s3_permission" /\ aws'.lambdas # aws.lambdas) =>
             /\ ~HandlerPermitsBucket(loc.suffix) /\ HandlerPermitsBucket(loc.suffix)'
             /\ pc' = "s3_sleep" /\ aws'.buckets = aws.buckets
       /\ (pc = "s3_sleep" /\ pc' # pc) =>
             pc' = "s3_notification" /\ aws' = aws
       /\ (pc = "s3_permission" /\ pc' # pc /\ obs'.lastErr \notin {"ok", "exists"}) =>
             pc' = "aborted" /\ aws' = aws
  ]_vars
\* Witness: the notification has just been installed on the ingest bucket,
\* towards a handler that carries the permission.
StorageTriggerOrderingWitness ==
  /\ kind = "setup" /\ pc = "lambda_create_B"
  /\ obs.lastStep = "s3_notification" /\ obs.lastErr = "ok"
  /\ HandlerPermitsBucket(loc.suffix)
  /\ aws.buckets[IngestBucket(loc.suffix)].notif = LambdaName("A", loc.suffix)
\* ---------------------------------------------------------------- C21
BoundMappings(f) == {m \in aws.esms : m.fn = f}
ReportedHandlers == {r.name : r \in {x \in obs.reported : x.msg = "lambda_error"}}
\* C21: a teardown step that deletes a handler is the delete step of the
\* handler at hand, entered from a mapping step that succeeded, and finds no
\* event-source mapping bound to that handler; a mapping step that fails
\* deletes no handler and hands control to the choice of the next handler; a
\* handler for which the run reported an error is still there for the rest of
\* the run.
MappingsBeforeHandler ==
  [][kind = "teardown" =>
       /\ \A f \in DOMAIN aws.lambdas \ DOMAIN aws'.lambdas :
             /\ pc = "fn_delete" /\ f = loc.cur
             /\ obs.lastStep = "fn_mappings" /\ obs.lastErr = "ok"
             /\ BoundMappings(f) = {}
       /\ (pc = "fn_mappings" /\ pc' # pc /\ obs'.lastErr # "ok") =>
             /\ pc' = "fn_next"
             /\ aws'.lambdas = aws.lambdas
             /\ loc.cur \in ReportedHandlers'
       /\ (pc = "fn_mappings" /\ pc' = "fn_delete") => BoundMappings(loc.cur)' = {}
       /\ kind' = "teardown" => ReportedHandlers' \subseteq DOMAIN aws'.lambdas
  ]_vars
\* Witness: the notifier handler has just been deleted after its mapping,
\* while a handler whose mapping step failed earlier in the run is still there.
MappingsBeforeHandlerWitness ==
  /\ kind = "teardown"
  /\ obs.lastStep = "fn_delete" /\ obs.lastErr = "ok"
  /\ StartsWith(loc.cur, LAMBDA_PREFIXES[Len(LAMBDA_PREFIXES)])
  /\ loc.cur \notin DOMAIN aws.lambdas
  /\ ReportedHandlers # {}
  /\ ReportedHandlers \subseteq DOMAIN aws.lambdas
\* ---------------------------------------------------------------- C22
\* C22: the topic never has more than one email subscription of the
\* configured address; the count changes only in the subscribe step of a
\* provisioning run, from none to one; that step is entered only from a
\* lookup that found none, and a lookup that finds the address goes on to the
\* buckets without a subscribe call; a run without a configured address goes
\* from the topic to the buckets and creates no subscription.
EmailSubscriptionOnce ==
  [][/\ aws'.subs <= 1
     /\ aws'.subs # aws.subs =>
           /\ kind = "setup" /\ pc = "sub_subscribe"
           /\ aws.subs = 0 /\ aws'.subs = 1
     /\ (kind = "setup" /\ pc' = "sub_subscribe" /\ pc # pc') =>
           pc = "sub_list" /\ aws.subs = 0
     /\ (kind = "setup" /\ pc = "sub_list" /\ pc' # pc /\ aws.subs > 0) =>
           pc' = "head_ingest" /\ aws'.subs = aws.subs
     /\ (kind = "setup" /\ pc' = "sub_list" /\ pc # pc') =>
           pc \in {"topic_list", "topic_create"}
     /\ (kind = "setup" /\ pc \in {"topic_list", "topic_create"} /\ pc' = "head_ingest") =>
           aws'.subs = aws.subs
  ]_vars
\* Witness: a later provisioning run has looked the address up, found it
\* subscribed by an earlier run, and gone on without subscribing.
EmailSubscriptionOnceWitness ==
  /\ kind = "setup" /\ pc = "head_ingest"
  /\ obs.lastStep = "sub_list" /\ obs.lastErr = "ok"
  /\ aws.subs = 1
  /\ Len(hist) >= 2
\* ---------------------------------------------------------------- C23
CompleteSetups ==
  Cardinality({i \in 1..Len(Archive) : Archive[i].kind = "setup" /\ Archive[i].end = "done"})
\* C23: the HTTP APIs of the account only grow: an API is added by the API
\* step of a provisioning run and by nothing else, one per run and whatever
\* already exists, and no step removes or renames one, teardown steps change
\* none; a complete provisioning run holds its own API with the integration,
\* both routes and the stage, and there are at least as many APIs as complete
\* provisioning runs.
ApisOnlyGrow ==
  [][/\ Len(aws'.apis) >= Len(aws.apis)
     /\ \A i \in 1..Len(aws.apis) : aws'.apis[i].name = aws.apis[i].name
     /\ Len(aws'.apis) # Len(aws.apis) =>
           /\ kind = "setup" /\ pc = "api_create"
           /\ aws'.apis = Append(aws.apis, NewApi(loc.suffix))
           /\ loc'.api_id = Len(aws'.apis)
     /\ (kind = "setup" /\ pc = "api_create" /\ pc' = "api_integration") =>
           Len(aws'.apis) = Len(aws.apis) + 1
     /\ (kind = "setup" /\ pc' = "api_create" /\ pc # pc') =>
           pc \in {"esm_update", "esm_create"}
     /\ kind = "teardown" => aws'.apis = aws.apis
     /\ (kind' = "setup" /\ pc' = "done") =>
           aws'.apis[loc'.api_id] =
             [name |-> Name(API_NAME_BASE, loc'.suffix), integration |-> TRUE,
              routes |-> {"GET /items", "GET /items/{store}"}, stage |-> TRUE]
     /\ CompleteSetups' <= Len(aws'.apis)
  ]_vars
\* Witness: a second complete provisioning run has added its API to the one
\* of the first.
ApisOnlyGrowWitness ==
  /\ kind = "setup" /\ pc = "done"
  /\ Len(aws.apis) = 2
  /\ CompleteSetups = 2
\* ---------------------------------------------------------------- C24
AllRunsCompleteSetups ==
  /\ kind = "setup" /\ pc = "done"
  /\ \A i \in 2..Len(hist) : hist[i].kind = "setup" /\ hist[i].end = "done"
FreshSuffixEachRun ==
  Cardinality({hist[i].suffix : i \in 2..Len(hist)} \cup {loc.suffix}) = Len(hist)
NotifierHandlers ==
  {f \in DOMAIN aws.lambdas : StartsWith(f, <<"notify_low_stock", "-">>)}
\* C24: when all N runs so far were complete provisioning runs, each with a
\* suffix of its own, and the table is active, the account holds N notifier
\* handlers, each with exactly one event-source mapping, enabled and on the
\* stream of the one table; the insert of a row with Count below 5 then gets N
\* messages published, all to the topic NoStock, and the insert of any other
\* row none.
NotifiersAccumulate ==
  (AllRunsCompleteSetups /\ FreshSuffixEachRun /\ aws.table.status = "ACTIVE")
  => /\ Cardinality(NotifierHandlers) = Len(hist)
     /\ \A f \in NotifierHandlers :
          /\ Cardinality({m \in aws.esms : m.fn = f}) = 1
          /\ \A m \in aws.esms : m.fn = f => m.enabled /\ m.stream = aws.table.gen
     /\ \A im \in Images :
          /\ Cardinality(PublishedOnInsert(im)) =
               IF im.Count \in CountsBelowFive THEN Len(hist) ELSE 0
          /\ \A p \in PublishedOnInsert(im) : p.topic = TopicArn(<<"NoStock">>)
\* Witness: two complete provisioning runs with different suffixes, and a
\* low-stock insert that gets two messages.
NotifiersAccumulateWitness ==
  /\ AllRunsCompleteSetups /\ FreshSuffixEachRun /\ aws.table.status = "ACTIVE"
  /\ Len(hist) = 2
  /\ Cardinality(PublishedOnInsert([Item |-> "Widget", Store |-> "StoreA", Count |-> <<"3">>])) = 2
\* ---------------------------------------------------------------- C25
RaceContexts == {[pc |-> pc, loc |-> loc, obs |-> obs], hist[1]}
RaceBothDone == \A r \in RaceContexts : r.pc = "done"
StillThere(c) ==
  CASE c = "table" -> aws.table.status # "NONE"
    [] c = "topic" -> <<"NoStock">> \in aws.topics
    [] c = "ingest" -> IngestBucket(loc.suffix) \in DOMAIN aws.buckets
    [] c = "web" -> WebBucket(loc.suffix) \in DOMAIN aws.buckets
    [] c = "esm" -> \E m \in aws.esms : m.uuid = loc.uuid
    [] OTHER -> LambdaName(c, loc.suffix) \in DOMAIN aws.lambdas
LeftBehindGone ==
  /\ \A b \in DOMAIN aws.buckets : ~MatchesAny(b, BUCKET_PREFIXES)
  /\ \A f \in DOMAIN aws.lambdas : ~MatchesAny(f, LAMBDA_PREFIXES)
  /\ aws.table.status = "NONE"
\* C26: a step of a provisioning run removes nothing from the account (no
\* bucket, handler, topic, mapping, API or subscription goes, an existing table
\* is left as it is) and writes the registry only in the save step; the step
\* that aborts a run changes neither the account nor the registry, and what
\* the aborted run created is still there; a teardown run that follows an
\* aborted provisioning run and ends with none of its calls answering an error
\* leaves no bucket and no handler of the naming patterns and no table,
\* whatever the registry held.
NoRollback ==
  [][/\ SetupRunning =>
          /\ DOMAIN aws.buckets \subseteq DOMAIN aws'.buckets
          /\ DOMAIN aws.lambdas \subseteq DOMAIN aws'.lambdas
          /\ aws.topics \subseteq aws'.topics
          /\ {m.uuid : m \in aws.esms} \subseteq {m.uuid : m \in aws'.esms}
          /\ Len(aws.apis) <= Len(aws'.apis)
          /\ aws.subs <= aws'.subs
          /\ (pc' # pc /\ aws.table.status # "NONE") => aws'.table = aws.table
          /\ pc # "save_registry" => registry' = registry
          /\ (pc' = "aborted" /\ pc # pc') =>
                /\ aws' = aws /\ registry' = registry
                /\ \A c \in obs'.created : StillThere(c)'
     /\ ( /\ kind' = "teardown" /\ pc' = "done"
          /\ LastRun'.kind = "setup" /\ LastRun'.end = "aborted"
          /\ obs'.reported = {} )
        => LeftBehindGone'
  ]_vars
\* Witness: a provisioning run on a clean account aborted after it had created
\* its API, no registry was written, and the teardown run after it has removed
\* the buckets, the handlers and the table.
NoRollbackWitness ==
  /\ kind = "teardown" /\ pc = "done"
  /\ Len(hist) = 2 /\ hist[1].end = "clean"
  /\ LastRun.kind = "setup" /\ LastRun.end = "aborted"
  /\ obs.reported = {}
  /\ registry = "absent"
  /\ Len(aws.apis) = 1
  /\ LeftBehindGone
====
